---- MODULE Spec2Model ----
(***************************************************************************)
(* Model of the SEO audit pipeline of the MJ SEO backend:                  *)
(*   backend/seo_engine/crawler.py   WebsiteCrawler.crawl, crawl_website   *)
(*   backend/seo_engine/checks.py    run_all_checks                        *)
(*   backend/seo_engine/comprehensive_checks.py                            *)
(*                                   run_all_comprehensive_checks          *)
(*   backend/routes/audits.py        process_audit                         *)
(*                                                                         *)
(* Strings are sequences of tokens.  The tokens ":", "/", "#", "?" and "[" *)
(* stand for those characters; every other token stands for a run of       *)
(* lower-case letters, digits and dots ("http", "x.com", "www.", ...).     *)
(* Numbers are exact: a score is kept as a fraction, the stored score in   *)
(* tenths of a point.                                                      *)
(***************************************************************************)
EXTENDS Integers, Sequences, FiniteSets, TLC

(***************************************************************************)
(* Bounds of the model.                                                    *)
(***************************************************************************)
MaxPages == 2
MaxLinks == 2
MaxChecks == 3

(***************************************************************************)
(* String helpers.                                                         *)
(***************************************************************************)
Range(s) == {s[i] : i \in 1..Len(s)}

\* str.find(ch): 1-based index of the first occurrence of token c, 0 if none.
Find(s, c) ==
    IF \E i \in 1..Len(s) : s[i] = c
    THEN CHOOSE i \in 1..Len(s) : s[i] = c /\ \A j \in 1..(i - 1) : s[j] # c
    ELSE 0

Prefix(s, n) == SubSeq(s, 1, n)
Suffix(s, n) == SubSeq(s, n, Len(s))

\* str.replace(tok, ""): every occurrence of the token is removed.
RemoveToken(s, tok) == SelectSeq(s, LAMBDA t : t # tok)

Special == {":", "/", "#", "?", "["}

(***************************************************************************)
(* urllib.parse.urlparse, as far as the crawler reads its result: scheme,  *)
(* netloc, path and whether the call raises ValueError.                    *)
(***************************************************************************)
SchemeEnd(url) ==
    LET i == Find(url, ":")
    IN  IF i > 1 /\ \A j \in 1..(i - 1) : url[j] \notin Special THEN i ELSE 0

AfterScheme(url) ==
    IF SchemeEnd(url) > 0 THEN Suffix(url, SchemeEnd(url) + 1) ELSE url

HasNetloc(url) ==
    LET r == AfterScheme(url)
    IN  Len(r) >= 2 /\ r[1] = "/" /\ r[2] = "/"

\* _splitnetloc: the netloc runs from position 3 to the next "/", "?" or "#".
NetlocEnd(r) ==
    IF \E i \in 3..Len(r) : r[i] \in {"/", "?", "#"}
    THEN (CHOOSE i \in 3..Len(r) :
              r[i] \in {"/", "?", "#"} /\ \A j \in 3..(i - 1) : r[j] \notin {"/", "?", "#"}) - 1
    ELSE Len(r)

CutAt(s, c) == IF Find(s, c) > 0 THEN Prefix(s, Find(s, c) - 1) ELSE s

urlparse(url) ==
    LET r    == AfterScheme(url)
        nl   == IF HasNetloc(url) THEN SubSeq(r, 3, NetlocEnd(r)) ELSE << >>
        rest == IF HasNetloc(url) THEN Suffix(r, NetlocEnd(r) + 1) ELSE r
    IN  [scheme |-> IF SchemeEnd(url) > 0 THEN Prefix(url, SchemeEnd(url) - 1) ELSE << >>,
         netloc |-> nl,
         path   |-> CutAt(CutAt(rest, "#"), "?"),
         raises |-> "[" \in Range(nl)]

(***************************************************************************)
(* WebsiteCrawler._normalize_url and WebsiteCrawler._is_same_domain.       *)
(***************************************************************************)
_normalize_url(url) ==
    LET parsed     == urlparse(url)
        normalized == parsed.scheme \o <<":", "/", "/">> \o parsed.netloc \o parsed.path
    IN  IF normalized[Len(normalized)] = "/" /\ Len(parsed.path) > 1
        THEN Prefix(normalized, Len(normalized) - 1)
        ELSE normalized

_is_same_domain(url, base_domain) ==
    LET parsed == urlparse(url)
    IN  \/ parsed.netloc = base_domain
        \/ parsed.netloc = <<"www.">> \o base_domain
        \/ parsed.netloc = RemoveToken(base_domain, "www.")

(***************************************************************************)
(* Inputs.  Seeds are the website_url values an audit is created with      *)
(* (AuditCreate.website_url is an unvalidated str); links are the          *)
(* absolute URLs _fetch_page collects from anchors (they start with        *)
(* "http").                                                                *)
(***************************************************************************)
Http(host, path) == <<"http", ":", "/", "/">> \o host \o path

SeedPlain   == Http(<<"x.com">>, << >>)
SeedWww     == Http(<<"www.", "x.com">>, <<"/">>)
SeedNoUrl   == <<"not-a-url">>
SeedFtp     == <<"ftp", ":", "/", "/", "x.com", "/">>
SeedBracket == Http(<<"[", "x.com">>, << >>)
SeedSlashes == Http(<<"x.com">>, <<"/", "a", "/", "/">>)
SeedInner   == Http(<<"shop.", "www.", "x.com">>, <<"/">>)

Seeds ==
    {SeedPlain, SeedWww, SeedNoUrl, SeedFtp, SeedBracket, SeedSlashes, SeedInner}

LinkURLs ==
    { Http(<<"x.com">>, << >>),
      Http(<<"x.com">>, <<"/", "a">>),
      Http(<<"x.com">>, <<"/", "a", "/">>),
      Http(<<"x.com">>, <<"/", "a", "/", "/">>),
      Http(<<"x.com">>, <<"/", "a", "#", "frag">>),
      Http(<<"www.", "x.com">>, <<"/", "b">>),
      Http(<<"shop.", "x.com">>, <<"/", "c">>),
      Http(<<"evil.com">>, <<"/">>) }

SeqsUpTo(S, n) == UNION {[1..k -> S] : k \in 0..n}

LinkLists == SeqsUpTo(LinkURLs, MaxLinks)

\* session.get only serves absolute http(s) URLs; any other URL makes it
\* raise, which _fetch_page turns into None.
Fetchable(url) ==
    LET parsed == urlparse(url)
    IN  parsed.scheme \in {<<"http">>, <<"https">>} /\ parsed.netloc # << >>

(***************************************************************************)
(* The audit row (models.Audit) and the check results.                     *)
(***************************************************************************)
AuditStatus == {"pending", "crawling", "analyzing", "generating_report", "completed", "failed"}
CheckStatus == {"pass", "fail", "warning", "info"}
Impacts == {0, 100}

NULL == << >>

NewAudit ==
    [status |-> "pending", pages_crawled |-> 0, total_checks_run |-> 0,
     checks_passed |-> 0, checks_failed |-> 0, checks_warning |-> 0,
     overall_score |-> NULL, error_message |-> NULL, completed_at |-> NULL]

CheckResult == [status : CheckStatus, impact_score : Impacts]

R(st, imp) == [status |-> st, impact_score |-> imp]

\* The aggregation example of the specification: 10 results, 7 pass,
\* fail impacts 80 and 50, warning impact 60.
ExampleResults ==
    <<R("pass", 50), R("pass", 50), R("pass", 50), R("pass", 50), R("pass", 50),
      R("pass", 50), R("pass", 50), R("fail", 80), R("fail", 50), R("warning", 60)>>

\* What the checks can report for a non-empty page list.
RegistryOutputs ==
    (SeqsUpTo(CheckResult, MaxChecks) \ {<< >>}) \cup {ExampleResults}

VARIABLES
    website_url,     \* process_audit argument
    max_pages,       \* process_audit argument
    pc,              \* position of process_audit
    audit,           \* the Audit object of the task's session
    db_audit,        \* the committed audits row
    session_new,     \* AuditResult objects added to the session, not committed
    db_results,      \* committed audit_results rows of this audit
    pages,           \* process_audit local
    check_results,   \* process_audit local
    overall_score,   \* process_audit local, a fraction [num, den]
    exc,             \* the exception caught at line 110: [src, msg]
    cpc,             \* position of WebsiteCrawler.crawl
    base_domain,     \* WebsiteCrawler.base_domain
    urls_to_visit,   \* crawl local: the frontier
    visited_urls,    \* WebsiteCrawler.visited_urls
    crawled_pages,   \* WebsiteCrawler.crawled_pages
    normalized_url,  \* crawl local: the URL being fetched
    enq_log,         \* history: entries appended to urls_to_visit in this run
    fetch_log,       \* history: URLs passed to _fetch_page in this run
    failed_urls,     \* history: URLs whose _fetch_page returned None
    site,            \* the crawled site: URL -> links of its page, or no page
    crawlers,        \* WebsiteCrawler objects of concurrent crawl_website calls
    runs,            \* the concurrent crawl_website calls: position and locals
    max_audits_per_month, \* Plan.max_audits_per_month of the user's plan
    audit_rows,      \* committed audits rows of the user in the month
    requests,        \* the create_audit requests: position and locals
    tasks_added,     \* process_audit tasks handed to background_tasks
    webhook_events,  \* the webhook_events row of one Stripe event id
    webhook_locks,   \* payments_stripe.webhook_locks
    deliveries,      \* the stripe_webhook requests for that event id
    handler_runs     \* history: completed runs of the event's handler

crawlVars == <<cpc, base_domain, urls_to_visit, visited_urls, crawled_pages,
               normalized_url, enq_log, fetch_log, failed_urls>>
auditVars == <<pc, audit, db_audit, session_new, db_results, pages,
               check_results, overall_score, exc>>
concVars == <<site, crawlers, runs>>
quotaVars == <<max_audits_per_month, audit_rows, requests, tasks_added>>
hookVars == <<webhook_events, webhook_locks, deliveries, handler_runs>>
sideVars == <<concVars, quotaVars, hookVars>>
vars == <<website_url, max_pages, auditVars, crawlVars, sideVars>>

NoExc == [src |-> "none", msg |-> NULL]

\* No second crawl is running.
ConcIdle ==
    /\ site = << >>
    /\ crawlers = << >>
    /\ runs = << >>

\* No create_audit request is in progress.
QuotaIdle ==
    /\ max_audits_per_month = 0
    /\ audit_rows = 0
    /\ requests = << >>
    /\ tasks_added = 0

\* No webhook_events row for the event id.
NoRow == [exists |-> FALSE, processed |-> FALSE, processing_attempts |-> 0]

\* No webhook has been delivered.
HookIdle ==
    /\ webhook_events = NoRow
    /\ webhook_locks = {}
    /\ deliveries = << >>
    /\ handler_runs = 0

Init ==
    /\ website_url \in Seeds
    /\ max_pages \in 1..MaxPages
    /\ pc = "pending"
    /\ audit = NewAudit
    /\ db_audit = NewAudit
    /\ session_new = 0
    /\ db_results = 0
    /\ pages = << >>
    /\ check_results = << >>
    /\ overall_score = [num |-> 0, den |-> 1]
    /\ exc = NoExc
    /\ cpc = "idle"
    /\ base_domain = << >>
    /\ urls_to_visit = << >>
    /\ visited_urls = {}
    /\ crawled_pages = << >>
    /\ normalized_url = << >>
    /\ enq_log = << >>
    /\ fetch_log = << >>
    /\ failed_urls = {}
    /\ ConcIdle /\ QuotaIdle /\ HookIdle

(***************************************************************************)
(* WebsiteCrawler.crawl, called by crawl_website on a fresh crawler.       *)
(***************************************************************************)
Page(url) == [url |-> url]

\* Lines 318-323: the links of a fetched page are appended to the frontier
\* one by one, each test seeing the links appended before it.
RECURSIVE Enqueue(_, _, _, _)
Enqueue(links, frontier, visited, base) ==
    IF links = << >> THEN frontier
    ELSE LET normalized_link == _normalize_url(Head(links))
             keep == /\ _is_same_domain(normalized_link, base)
                     /\ normalized_link \notin visited
                     /\ normalized_link \notin Range(frontier)
         IN  Enqueue(Tail(links),
                     IF keep THEN Append(frontier, normalized_link) ELSE frontier,
                     visited, base)

LoopConditionOffByOne == urls_to_visit # << >> /\ Len(crawled_pages) <= max_pages

LoopCondition == urls_to_visit # << >> /\ Len(crawled_pages) < max_pages

\* Lines 290-296: parse the seed, initialise the run.
CrawlCall ==
    /\ pc = "crawling" /\ cpc = "call"
    /\ IF urlparse(website_url).raises
       THEN /\ cpc' = "raised"
            /\ UNCHANGED <<base_domain, urls_to_visit, visited_urls, crawled_pages,
                           enq_log>>
       ELSE /\ cpc' = "loop"
            /\ base_domain' = urlparse(website_url).netloc
            /\ urls_to_visit' = <<website_url>>
            /\ visited_urls' = {}
            /\ crawled_pages' = << >>
            /\ enq_log' = <<website_url>>
    /\ UNCHANGED <<sideVars, website_url, max_pages, auditVars, normalized_url, fetch_log, failed_urls>>

\* Lines 301-306: pop a URL that was visited before and continue.
LoopSkip ==
    /\ pc = "crawling" /\ cpc = "loop"
    /\ LoopCondition
    /\ _normalize_url(Head(urls_to_visit)) \in visited_urls
    /\ urls_to_visit' = Tail(urls_to_visit)
    /\ UNCHANGED <<sideVars, website_url, max_pages, auditVars, cpc, base_domain, visited_urls,
                   crawled_pages, normalized_url, enq_log, fetch_log, failed_urls>>

LoopFetchUnchecked ==
    /\ pc = "crawling" /\ cpc = "loop"
    /\ LoopCondition
    /\ urls_to_visit' = Tail(urls_to_visit)
    /\ normalized_url' = _normalize_url(Head(urls_to_visit))
    /\ visited_urls' = visited_urls \cup {normalized_url'}
    /\ fetch_log' = Append(fetch_log, normalized_url')
    /\ cpc' = "fetch"
    /\ UNCHANGED <<sideVars, website_url, max_pages, auditVars, base_domain, crawled_pages,
                   enq_log, failed_urls>>

LoopFetchLast ==
    /\ pc = "crawling" /\ cpc = "loop"
    /\ LoopCondition
    /\ _normalize_url(urls_to_visit[Len(urls_to_visit)]) \notin visited_urls
    /\ urls_to_visit' = Prefix(urls_to_visit, Len(urls_to_visit) - 1)
    /\ normalized_url' = _normalize_url(urls_to_visit[Len(urls_to_visit)])
    /\ visited_urls' = visited_urls \cup {normalized_url'}
    /\ fetch_log' = Append(fetch_log, normalized_url')
    /\ cpc' = "fetch"
    /\ UNCHANGED <<sideVars, website_url, max_pages, auditVars, base_domain, crawled_pages,
                   enq_log, failed_urls>>

\* Lines 301-312: pop a new URL, mark it visited and start its fetch.
LoopFetch ==
    /\ pc = "crawling" /\ cpc = "loop"
    /\ LoopCondition
    /\ _normalize_url(Head(urls_to_visit)) \notin visited_urls
    /\ urls_to_visit' = Tail(urls_to_visit)
    /\ normalized_url' = _normalize_url(Head(urls_to_visit))
    /\ visited_urls' = visited_urls \cup {normalized_url'}
    /\ fetch_log' = Append(fetch_log, normalized_url')
    /\ cpc' = "fetch"
    /\ UNCHANGED <<sideVars, website_url, max_pages, auditVars, base_domain, crawled_pages,
                   enq_log, failed_urls>>

\* Lines 125-275 and 314-326: the fetch returns a page with its links.
FetchSuccess ==
    /\ pc = "crawling" /\ cpc = "fetch"
    /\ Fetchable(normalized_url)
    /\ \E links \in LinkLists :
          /\ crawled_pages' = Append(crawled_pages, Page(normalized_url))
          /\ urls_to_visit' = Enqueue(links, urls_to_visit, visited_urls, base_domain)
    /\ enq_log' = enq_log \o SelectSeq(urls_to_visit',
                                       LAMBDA e : e \notin Range(urls_to_visit))
    /\ cpc' = "loop"
    /\ UNCHANGED <<sideVars, website_url, max_pages, auditVars, base_domain, visited_urls,
                   normalized_url, fetch_log, failed_urls>>

FetchFailureCounted ==
    /\ pc = "crawling" /\ cpc = "fetch"
    /\ failed_urls' = failed_urls \cup {normalized_url}
    /\ crawled_pages' = Append(crawled_pages, Page(normalized_url))
    /\ cpc' = "loop"
    /\ UNCHANGED <<sideVars, website_url, max_pages, auditVars, base_domain, urls_to_visit,
                   visited_urls, normalized_url, enq_log, fetch_log>>

FetchFailureRequeue ==
    /\ pc = "crawling" /\ cpc = "fetch"
    /\ failed_urls' = failed_urls \cup {normalized_url}
    /\ urls_to_visit' = Append(urls_to_visit, normalized_url)
    /\ visited_urls' = visited_urls \ {normalized_url}
    /\ cpc' = "loop"
    /\ UNCHANGED <<sideVars, website_url, max_pages, auditVars, base_domain, crawled_pages,
                   normalized_url, enq_log, fetch_log>>

\* Lines 277-282 and 314-326: the fetch times out or errors, _fetch_page
\* returns None.
FetchFailure ==
    /\ pc = "crawling" /\ cpc = "fetch"
    /\ failed_urls' = failed_urls \cup {normalized_url}
    /\ cpc' = "loop"
    /\ UNCHANGED <<sideVars, website_url, max_pages, auditVars, base_domain, urls_to_visit,
                   visited_urls, crawled_pages, normalized_url, enq_log, fetch_log>>

\* Lines 299 and 328-329: the loop ends and crawl returns crawled_pages.
LoopExit ==
    /\ pc = "crawling" /\ cpc = "loop"
    /\ ~LoopCondition
    /\ cpc' = "returned"
    /\ UNCHANGED <<sideVars, website_url, max_pages, auditVars, base_domain, urls_to_visit,
                   visited_urls, crawled_pages, normalized_url, enq_log, fetch_log, failed_urls>>

\* The crawler object is local to crawl_website and is gone after the call.
CrawlerDropped ==
    /\ cpc' = "idle"
    /\ base_domain' = << >>
    /\ urls_to_visit' = << >>
    /\ visited_urls' = {}
    /\ crawled_pages' = << >>
    /\ normalized_url' = << >>
    /\ enq_log' = << >>
    /\ fetch_log' = << >>
    /\ failed_urls' = {}

(***************************************************************************)
(* The check registries.  outs is what the registered checks compute from  *)
(* the pages, one result per check, in registration order.                 *)
(***************************************************************************)
run_all_checks_unguarded(pgs, outs) == outs

\* checks.py, lines 308-343.
run_all_checks(pgs, outs) == IF pgs = << >> THEN << >> ELSE outs

\* comprehensive_checks.py, lines 3344-3519.
run_all_comprehensive_checks(pgs, outs) == IF pgs = << >> THEN << >> ELSE outs

\* audits.py imports the name run_all_checks from the seo_engine package,
\* which exports run_all_comprehensive_checks.
Registries == {"run_all_checks", "run_all_comprehensive_checks"}

RunRegistry(reg, pgs, outs) ==
    IF reg = "run_all_checks" THEN run_all_checks(pgs, outs)
    ELSE run_all_comprehensive_checks(pgs, outs)

(***************************************************************************)
(* process_audit: the aggregation of lines 49-91.  total_impact is kept    *)
(* doubled (impact2) so that the half weight of a warning stays integral.  *)
(***************************************************************************)
Min(a, b) == IF a < b THEN a ELSE b
Max(a, b) == IF a > b THEN a ELSE b

ZeroCounts == [passed |-> 0, failed |-> 0, warning |-> 0, impact2 |-> 0]

CountStatusFullWarning(acc, r) ==
    IF r.status = "pass" THEN [acc EXCEPT !.passed = @ + 1]
    ELSE IF r.status = "fail"
         THEN [acc EXCEPT !.failed = @ + 1, !.impact2 = @ + 2 * r.impact_score]
    ELSE IF r.status = "warning"
         THEN [acc EXCEPT !.warning = @ + 1, !.impact2 = @ + 2 * r.impact_score]
    ELSE acc

CountStatusInfoAsWarning(acc, r) ==
    IF r.status = "pass" THEN [acc EXCEPT !.passed = @ + 1]
    ELSE IF r.status = "fail"
         THEN [acc EXCEPT !.failed = @ + 1, !.impact2 = @ + 2 * r.impact_score]
    ELSE [acc EXCEPT !.warning = @ + 1, !.impact2 = @ + r.impact_score]

CountStatusPassPenalised(acc, r) ==
    IF r.status = "pass"
    THEN [acc EXCEPT !.passed = @ + 1, !.impact2 = @ + 2 * r.impact_score]
    ELSE IF r.status = "fail"
         THEN [acc EXCEPT !.failed = @ + 1, !.impact2 = @ + 2 * r.impact_score]
    ELSE IF r.status = "warning"
         THEN [acc EXCEPT !.warning = @ + 1, !.impact2 = @ + r.impact_score]
    ELSE acc

CountStatusInfoPenalised(acc, r) ==
    IF r.status = "pass" THEN [acc EXCEPT !.passed = @ + 1]
    ELSE IF r.status = "fail"
         THEN [acc EXCEPT !.failed = @ + 1, !.impact2 = @ + 2 * r.impact_score]
    ELSE IF r.status = "warning"
         THEN [acc EXCEPT !.warning = @ + 1, !.impact2 = @ + r.impact_score]
    ELSE [acc EXCEPT !.impact2 = @ + r.impact_score]

\* Lines 73-81: one iteration of the loop over check_results.
CountStatus(acc, r) ==
    IF r.status = "pass" THEN [acc EXCEPT !.passed = @ + 1]
    ELSE IF r.status = "fail"
         THEN [acc EXCEPT !.failed = @ + 1, !.impact2 = @ + 2 * r.impact_score]
    ELSE IF r.status = "warning"
         THEN [acc EXCEPT !.warning = @ + 1, !.impact2 = @ + r.impact_score]
    ELSE acc

AddCounts(a, b) ==
    [passed |-> a.passed + b.passed, failed |-> a.failed + b.failed,
     warning |-> a.warning + b.warning, impact2 |-> a.impact2 + b.impact2]

\* The increments of iterations lo..hi.  The counters only ever grow by
\* amounts that depend on the one result, so the iterations are added up
\* by halves, which keeps the evaluation shallow on long result lists.
RECURSIVE CountRange(_, _, _)
CountRange(results, lo, hi) ==
    IF lo > hi THEN ZeroCounts
    ELSE IF lo = hi THEN CountStatus(ZeroCounts, results[lo])
    ELSE LET mid == (lo + hi) \div 2
         IN  AddCounts(CountRange(results, lo, mid), CountRange(results, mid + 1, hi))

\* Lines 73-81: the loop over check_results, started with counters acc.
CountLoop(results, acc) == AddCounts(acc, CountRange(results, 1, Len(results)))

OverallScoreUnclamped(passed, impact2, total_checks) ==
    IF total_checks > 0
    THEN [num |-> 2000 * passed - 3 * impact2, den |-> 20 * total_checks]
    ELSE [num |-> 0, den |-> 1]

OverallScoreNoFloor(passed, impact2, total_checks) ==
    IF total_checks > 0
    THEN LET den == 20 * total_checks
             raw == 2000 * passed - 3 * impact2
         IN  [num |-> Min(100 * den, raw), den |-> den]
    ELSE [num |-> 0, den |-> 1]

\* Lines 84-91.  base_score = passed/total*100 and
\* penalty = total_impact/total*0.3, both over the denominator 20*total:
\* base_score - penalty = (2000*passed - 3*impact2) / (20*total).
OverallScore(passed, impact2, total_checks) ==
    IF total_checks > 0
    THEN LET den == 20 * total_checks
             raw == 2000 * passed - 3 * impact2
         IN  [num |-> Max(0, Min(100 * den, raw)), den |-> den]
    ELSE [num |-> 0, den |-> 1]

\* Line 99: round(overall_score, 1), in tenths.  The float that is rounded
\* carries the error of the divisions before it, so a value halfway
\* between two tenths can go either way.
RoundTenths(score) ==
    LET q == (10 * score.num) \div score.den
        r == (10 * score.num) % score.den
    IN  IF 2 * r < score.den THEN {q}
        ELSE IF 2 * r > score.den THEN {q + 1}
        ELSE {q, q + 1}

(***************************************************************************)
(* process_audit.                                                          *)
(***************************************************************************)
Raise(src, msg) == [src |-> src, msg |-> msg]

\* Lines 29-34, the commit succeeds.
StartAudit ==
    /\ pc = "pending"
    /\ audit' = [audit EXCEPT !.status = "crawling"]
    /\ db_audit' = audit'
    /\ pc' = "crawling"
    /\ cpc' = "call"
    /\ UNCHANGED <<sideVars, website_url, max_pages, session_new, db_results, pages, check_results,
                   overall_score, exc, base_domain, urls_to_visit, visited_urls,
                   crawled_pages, normalized_url, enq_log, fetch_log, failed_urls>>

\* Lines 29-34, the commit raises.
StartAuditCommitFails ==
    /\ pc = "pending"
    /\ audit' = [audit EXCEPT !.status = "crawling"]
    /\ exc' = Raise("commit", <<"commit failed">>)
    /\ pc' = "handler"
    /\ UNCHANGED <<sideVars, website_url, max_pages, db_audit, session_new, db_results, pages,
                   check_results, overall_score, crawlVars>>

\* Line 38: crawl raised; nothing in crawl_website catches it.
CrawlRaised ==
    /\ pc = "crawling" /\ cpc = "raised"
    /\ exc' = Raise("crawl", <<"Invalid IPv6 URL">>)
    /\ pc' = "handler"
    /\ CrawlerDropped
    /\ UNCHANGED <<sideVars, website_url, max_pages, audit, db_audit, session_new, db_results,
                   pages, check_results, overall_score>>

\* Lines 38-42, the commit succeeds.
CrawlReturned ==
    /\ pc = "crawling" /\ cpc = "returned"
    /\ pages' = crawled_pages
    /\ audit' = [audit EXCEPT !.pages_crawled = Len(crawled_pages), !.status = "analyzing"]
    /\ db_audit' = audit'
    /\ pc' = "analyzing"
    /\ CrawlerDropped
    /\ UNCHANGED <<sideVars, website_url, max_pages, session_new, db_results, check_results,
                   overall_score, exc>>

\* Lines 38-42, the commit raises.
CrawlReturnedCommitFails ==
    /\ pc = "crawling" /\ cpc = "returned"
    /\ pages' = crawled_pages
    /\ audit' = [audit EXCEPT !.pages_crawled = Len(crawled_pages), !.status = "analyzing"]
    /\ exc' = Raise("commit", <<"commit failed">>)
    /\ pc' = "handler"
    /\ CrawlerDropped
    /\ UNCHANGED <<sideVars, website_url, max_pages, db_audit, session_new, db_results,
                   check_results, overall_score>>

\* Lines 44-104: run the checks, add one AuditResult per result to the
\* session, count, score and fill in the audit.  No await in between.
\* audit.metadata (line 101) is not a column of the row (the column is
\* audit_metadata) and is left out.
StoreResults(results) ==
    LET counts  == CountLoop(results, ZeroCounts)
        total_checks == Len(results)
        score   == OverallScore(counts.passed, counts.impact2, total_checks)
    IN  /\ check_results' = results
        /\ session_new' = session_new + Len(results)
        /\ overall_score' = score
        /\ \E rounded \in RoundTenths(score) :
              audit' = [audit EXCEPT !.status = "completed",
                                     !.total_checks_run = total_checks,
                                     !.checks_passed = counts.passed,
                                     !.checks_failed = counts.failed,
                                     !.checks_warning = counts.warning,
                                     !.overall_score = <<rounded>>,
                                     !.completed_at = <<"now">>]
        /\ pc' = "committing"
        /\ UNCHANGED <<sideVars, website_url, max_pages, db_audit, db_results, pages, exc, crawlVars>>

\* Lines 44-104 with the checks' output left open.
Analyze ==
    /\ pc = "analyzing"
    /\ \E reg \in Registries, outs \in RegistryOutputs :
          StoreResults(RunRegistry(reg, pages, outs))

\* Line 46: a check raises; the registry has no try/except, so the
\* exception reaches process_audit before any result is stored.
AnalyzeCheckRaises ==
    /\ pc = "analyzing"
    /\ pages # << >>
    /\ exc' = Raise("check", <<"check raised">>)
    /\ pc' = "handler"
    /\ UNCHANGED <<sideVars, website_url, max_pages, audit, db_audit, session_new, db_results,
                   pages, check_results, overall_score, crawlVars>>

FinalCommitThenRaises ==
    /\ pc = "committing"
    /\ db_audit' = audit
    /\ db_results' = db_results + session_new
    /\ session_new' = 0
    /\ exc' = Raise("check", <<"raised after commit">>)
    /\ pc' = "handler"
    /\ UNCHANGED <<sideVars, website_url, max_pages, audit, pages, check_results, overall_score,
                   crawlVars>>

\* Line 106, the commit succeeds.
FinalCommit ==
    /\ pc = "committing"
    /\ db_audit' = audit
    /\ db_results' = db_results + session_new
    /\ session_new' = 0
    /\ pc' = "done"
    /\ UNCHANGED <<sideVars, website_url, max_pages, audit, pages, check_results, overall_score,
                   exc, crawlVars>>

\* Line 106, the commit raises.
FinalCommitFails ==
    /\ pc = "committing"
    /\ exc' = Raise("commit", <<"commit failed">>)
    /\ pc' = "handler"
    /\ UNCHANGED <<sideVars, website_url, max_pages, audit, db_audit, session_new, db_results,
                   pages, check_results, overall_score, crawlVars>>

HandlerNoMessage ==
    /\ pc = "handler"
    /\ LET loaded == IF exc.src = "commit" THEN db_audit ELSE audit
           added  == IF exc.src = "commit" THEN 0 ELSE session_new
       IN  /\ audit' = [loaded EXCEPT !.status = "failed"]
           /\ db_audit' = audit'
           /\ db_results' = db_results + added
    /\ session_new' = 0
    /\ pc' = "done"
    /\ UNCHANGED <<sideVars, website_url, max_pages, pages, check_results, overall_score, exc,
                   crawlVars>>

HandlerKeepsSession ==
    /\ pc = "handler"
    /\ audit' = [audit EXCEPT !.status = "failed", !.error_message = exc.msg]
    /\ db_audit' = audit'
    /\ db_results' = db_results + session_new
    /\ session_new' = 0
    /\ pc' = "done"
    /\ UNCHANGED <<sideVars, website_url, max_pages, pages, check_results, overall_score, exc,
                   crawlVars>>

\* Lines 110-118, the handler's statements succeed.  After a failed commit
\* the session has rolled back: the audit is reloaded from its row and the
\* added objects are gone.  Otherwise the select flushes what was added.
Handler ==
    /\ pc = "handler"
    /\ LET loaded == IF exc.src = "commit" THEN db_audit ELSE audit
           added  == IF exc.src = "commit" THEN 0 ELSE session_new
       IN  /\ audit' = [loaded EXCEPT !.status = "failed", !.error_message = exc.msg]
           /\ db_audit' = audit'
           /\ db_results' = db_results + added
    /\ session_new' = 0
    /\ pc' = "done"
    /\ UNCHANGED <<sideVars, website_url, max_pages, pages, check_results, overall_score, exc,
                   crawlVars>>

\* Lines 110-118, the select or the commit of the handler raises: the
\* exception leaves process_audit and the row stays as it was.
HandlerRaises ==
    /\ pc = "handler"
    /\ pc' = "crashed"
    /\ UNCHANGED <<sideVars, website_url, max_pages, audit, db_audit, session_new, db_results,
                   pages, check_results, overall_score, exc, crawlVars>>

Next ==
    \/ StartAudit
    \/ StartAuditCommitFails
    \/ CrawlCall
    \/ LoopSkip
    \/ LoopFetch
    \/ FetchSuccess
    \/ FetchFailure
    \/ LoopExit
    \/ CrawlRaised
    \/ CrawlReturned
    \/ CrawlReturnedCommitFails
    \/ Analyze
    \/ AnalyzeCheckRaises
    \/ FinalCommit
    \/ FinalCommitFails
    \/ Handler
    \/ HandlerRaises

Spec == Init /\ [][Next]_vars

TypeOK ==
    /\ pc \in {"pending", "crawling", "analyzing", "committing", "handler", "done", "crashed"}
    /\ cpc \in {"idle", "call", "loop", "fetch", "returned", "raised"}
    /\ audit.status \in AuditStatus
    /\ db_audit.status \in AuditStatus

\* The event loop runs a task that is ready: process_audit is resumed
\* whenever one of its steps can be taken.
FairSpec == Spec /\ WF_vars(Next)

\* process_audit at line 38, calling crawl_website after line 34 committed.
InitCrawl ==
    /\ website_url \in Seeds
    /\ max_pages \in 1..MaxPages
    /\ pc = "crawling"
    /\ audit = [NewAudit EXCEPT !.status = "crawling"]
    /\ db_audit = audit
    /\ session_new = 0
    /\ db_results = 0
    /\ pages = << >>
    /\ check_results = << >>
    /\ overall_score = [num |-> 0, den |-> 1]
    /\ exc = NoExc
    /\ cpc = "call"
    /\ base_domain = << >>
    /\ urls_to_visit = << >>
    /\ visited_urls = {}
    /\ crawled_pages = << >>
    /\ normalized_url = << >>
    /\ enq_log = << >>
    /\ fetch_log = << >>
    /\ failed_urls = {}
    /\ ConcIdle /\ QuotaIdle /\ HookIdle

NextCrawl ==
    \/ CrawlCall
    \/ LoopSkip
    \/ LoopFetch
    \/ FetchSuccess
    \/ FetchFailure
    \/ LoopExit

\* crawl is one coroutine: its synchronous steps run when it is resumed,
\* asyncio.sleep(0.5) returns, and _fetch_page returns within the
\* ClientTimeout of line 129 (a page or None).
SpecCrawl == InitCrawl /\ [][NextCrawl]_vars /\ WF_vars(NextCrawl)

(***************************************************************************)
(* The registered checks, run on crawled pages.  A page carries the fields *)
(* the modelled checks read: title as its length (0 for a missing or       *)
(* empty title) and word_count.  A result carries the fields process_audit *)
(* stores.                                                                 *)
(***************************************************************************)
\* checks.py, run_all_checks: the checks in registration order, each with
\* the constants of its result and the statuses its code can return.
ChecksRegistry ==
    <<
      [cls |-> "TechnicalSEOChecks", fn |-> "check_meta_robots",
       check_name |-> "Meta robots tag",
       category |-> "Technical SEO", statuses |-> {"pass", "fail"}, impact_score |-> 75],
      [cls |-> "TechnicalSEOChecks", fn |-> "check_https",
       check_name |-> "HTTPS implementation",
       category |-> "Technical SEO", statuses |-> {"pass", "fail"}, impact_score |-> 95],
      [cls |-> "TechnicalSEOChecks", fn |-> "check_viewport",
       check_name |-> "Viewport meta tag",
       category |-> "Technical SEO", statuses |-> {"pass", "fail"}, impact_score |-> 85],
      [cls |-> "TechnicalSEOChecks", fn |-> "check_canonical",
       check_name |-> "Canonical tags",
       category |-> "Technical SEO", statuses |-> {"pass", "warning"}, impact_score |-> 80],
      [cls |-> "PerformanceChecks", fn |-> "check_load_time",
       check_name |-> "Page load time",
       category |-> "Performance", statuses |-> {"pass", "fail", "warning"}, impact_score |-> 95],
      [cls |-> "OnPageSEOChecks", fn |-> "check_title_tags",
       check_name |-> "Title tags optimization",
       category |-> "On-Page SEO", statuses |-> {"pass", "fail", "warning"}, impact_score |-> 100],
      [cls |-> "OnPageSEOChecks", fn |-> "check_meta_descriptions",
       check_name |-> "Meta descriptions",
       category |-> "On-Page SEO", statuses |-> {"pass", "fail", "warning"}, impact_score |-> 85],
      [cls |-> "OnPageSEOChecks", fn |-> "check_h1_tags",
       check_name |-> "H1 heading tags",
       category |-> "On-Page SEO", statuses |-> {"pass", "fail"}, impact_score |-> 90],
      [cls |-> "OnPageSEOChecks", fn |-> "check_image_alt_text",
       check_name |-> "Image alt attributes",
       category |-> "On-Page SEO", statuses |-> {"pass", "fail", "warning"}, impact_score |-> 70],
      [cls |-> "ContentChecks", fn |-> "check_content_length",
       check_name |-> "Content length and depth",
       category |-> "Content Quality", statuses |-> {"pass", "fail", "warning"}, impact_score |-> 85]
    >>

\* comprehensive_checks.py, run_all_comprehensive_checks.
ComprehensiveRegistry ==
    <<
      [cls |-> "TechnicalSEOChecks", fn |-> "check_meta_robots",
       check_name |-> "Meta Robots Tag Presence",
       category |-> "Technical SEO", statuses |-> {"pass", "fail"}, impact_score |-> 75],
      [cls |-> "TechnicalSEOChecks", fn |-> "check_og_tags",
       check_name |-> "Open Graph (OG) tags missing",
       category |-> "Technical SEO", statuses |-> {"pass", "fail", "warning"}, impact_score |-> 70],
      [cls |-> "TechnicalSEOChecks", fn |-> "check_twitter_cards",
       check_name |-> "Twitter Card meta tags missing",
       category |-> "Technical SEO", statuses |-> {"pass", "warning"}, impact_score |-> 60],
      [cls |-> "TechnicalSEOChecks", fn |-> "check_meta_charset",
       check_name |-> "Meta charset not specified",
       category |-> "Technical SEO", statuses |-> {"pass", "fail"}, impact_score |-> 65],
      [cls |-> "TechnicalSEOChecks", fn |-> "check_meta_language",
       check_name |-> "Meta language tag missing",
       category |-> "Technical SEO", statuses |-> {"pass", "warning"}, impact_score |-> 70],
      [cls |-> "TechnicalSEOChecks", fn |-> "check_viewport",
       check_name |-> "Viewport meta tag missing",
       category |-> "Technical SEO", statuses |-> {"pass", "fail"}, impact_score |-> 90],
      [cls |-> "TechnicalSEOChecks", fn |-> "check_user_scalable",
       check_name |-> "user-scalable set to 'no' in viewport",
       category |-> "Technical SEO", statuses |-> {"pass", "warning"}, impact_score |-> 60],
      [cls |-> "TechnicalSEOChecks", fn |-> "check_mobile_friendly",
       check_name |-> "Mobile-friendly design issues",
       category |-> "Technical SEO", statuses |-> {"pass", "fail", "warning"}, impact_score |-> 95],
      [cls |-> "TechnicalSEOChecks", fn |-> "check_sitemap_in_robots",
       check_name |-> "Sitemap not referenced in robots.txt",
       category |-> "Technical SEO", statuses |-> {"warning"}, impact_score |-> 75],
      [cls |-> "TechnicalSEOChecks", fn |-> "check_https",
       check_name |-> "Website not using HTTPS",
       category |-> "Technical SEO", statuses |-> {"pass", "fail"}, impact_score |-> 95],
      [cls |-> "TechnicalSEOChecks", fn |-> "check_canonical",
       check_name |-> "Canonical tag missing",
       category |-> "Technical SEO", statuses |-> {"pass", "warning"}, impact_score |-> 80],
      [cls |-> "TechnicalSEOChecks", fn |-> "check_structured_data",
       check_name |-> "Schema markup missing (JSON-LD)",
       category |-> "Technical SEO", statuses |-> {"pass", "fail", "warning"}, impact_score |-> 85],
      [cls |-> "TechnicalSEOChecks", fn |-> "check_redirects",
       check_name |-> "Multiple redirect chains",
       category |-> "Technical SEO", statuses |-> {"info"}, impact_score |-> 70],
      [cls |-> "TechnicalSEOChecks", fn |-> "check_url_structure",
       check_name |-> "URL structure not SEO-friendly",
       category |-> "Technical SEO", statuses |-> {"pass", "fail", "warning"}, impact_score |-> 75],
      [cls |-> "TechnicalSEOChecks", fn |-> "check_hreflang",
       check_name |-> "Hreflang tags missing (international sites)",
       category |-> "Technical SEO", statuses |-> {"info"}, impact_score |-> 80],
      [cls |-> "TechnicalSEOChecks", fn |-> "check_mixed_content",
       check_name |-> "Mixed content warnings",
       category |-> "Technical SEO", statuses |-> {"pass", "fail"}, impact_score |-> 85],
      [cls |-> "TechnicalSEOChecks", fn |-> "check_ssl_certificate",
       check_name |-> "SSL certificate issues",
       category |-> "Technical SEO", statuses |-> {"info"}, impact_score |-> 95],
      [cls |-> "TechnicalSEOChecks", fn |-> "check_multiple_canonicals",
       check_name |-> "Multiple canonical tags",
       category |-> "Technical SEO", statuses |-> {"pass", "fail"}, impact_score |-> 88],
      [cls |-> "TechnicalSEOChecks", fn |-> "check_canonical_pointing_nonindexable",
       check_name |-> "Canonical pointing to non-indexable URL",
       category |-> "Technical SEO", statuses |-> {"info"}, impact_score |-> 90],
      [cls |-> "TechnicalSEOChecks", fn |-> "check_invalid_schema",
       check_name |-> "Invalid schema markup",
       category |-> "Technical SEO", statuses |-> {"info"}, impact_score |-> 75],
      [cls |-> "TechnicalSEOChecks", fn |-> "check_url_length",
       check_name |-> "URLs exceeding recommended length (>115 characters)",
       category |-> "Technical SEO", statuses |-> {"pass", "warning", "info"}, impact_score |-> 65],
      [cls |-> "TechnicalSEOChecks", fn |-> "check_url_case_underscores",
       check_name |-> "Mixed case or underscores in URLs",
       category |-> "Technical SEO", statuses |-> {"pass", "warning", "info"}, impact_score |-> 60],
      [cls |-> "TechnicalSEOChecks", fn |-> "check_404_errors",
       check_name |-> "404 errors on important pages",
       category |-> "Technical SEO", statuses |-> {"info"}, impact_score |-> 87],
      [cls |-> "TechnicalSEOChecks", fn |-> "check_redirect_loops",
       check_name |-> "Redirect loops detected",
       category |-> "Technical SEO", statuses |-> {"info"}, impact_score |-> 92],
      [cls |-> "TechnicalSEOChecks", fn |-> "check_excessive_redirects",
       check_name |-> "Too many 301/302 redirects",
       category |-> "Technical SEO", statuses |-> {"info"}, impact_score |-> 78],
      [cls |-> "TechnicalSEOChecks", fn |-> "check_microdata_issues",
       check_name |-> "Microdata markup issues",
       category |-> "Technical SEO", statuses |-> {"pass", "info"}, impact_score |-> 58],
      [cls |-> "TechnicalSEOChecks", fn |-> "check_html_size",
       check_name |-> "HTML file size too large (>100KB)",
       category |-> "Technical SEO", statuses |-> {"pass", "warning", "info"}, impact_score |-> 70],
      [cls |-> "TechnicalSEOChecks", fn |-> "check_cdn_implementation",
       check_name |-> "No CDN implementation",
       category |-> "Technical SEO", statuses |-> {"info"}, impact_score |-> 80],
      [cls |-> "PerformanceChecks", fn |-> "check_load_time",
       check_name |-> "Slow page load time (>3 seconds)",
       category |-> "Performance", statuses |-> {"pass", "fail", "warning"}, impact_score |-> 95],
      [cls |-> "PerformanceChecks", fn |-> "check_lcp",
       check_name |-> "Poor Largest Contentful Paint (LCP >2.5s)",
       category |-> "Performance", statuses |-> {"pass", "fail", "warning"}, impact_score |-> 95],
      [cls |-> "PerformanceChecks", fn |-> "check_fid",
       check_name |-> "High First Input Delay (FID >100ms)",
       category |-> "Performance", statuses |-> {"info"}, impact_score |-> 85],
      [cls |-> "PerformanceChecks", fn |-> "check_cls",
       check_name |-> "Poor Cumulative Layout Shift (CLS >0.1)",
       category |-> "Performance", statuses |-> {"info"}, impact_score |-> 90],
      [cls |-> "PerformanceChecks", fn |-> "check_ttfb",
       check_name |-> "Slow Time to First Byte (TTFB >600ms)",
       category |-> "Performance", statuses |-> {"pass", "fail", "warning"}, impact_score |-> 80],
      [cls |-> "PerformanceChecks", fn |-> "check_image_optimization",
       check_name |-> "Images not optimized (>100KB each)",
       category |-> "Performance", statuses |-> {"warning"}, impact_score |-> 90],
      [cls |-> "PerformanceChecks", fn |-> "check_modern_image_formats",
       check_name |-> "Images not using modern formats (WebP/AVIF)",
       category |-> "Performance", statuses |-> {"pass", "fail", "warning"}, impact_score |-> 75],
      [cls |-> "PerformanceChecks", fn |-> "check_lazy_loading",
       check_name |-> "Lazy loading not implemented",
       category |-> "Performance", statuses |-> {"pass", "fail", "warning"}, impact_score |-> 70],
      [cls |-> "PerformanceChecks", fn |-> "check_caching",
       check_name |-> "Browser caching not enabled",
       category |-> "Performance", statuses |-> {"warning"}, impact_score |-> 85],
      [cls |-> "PerformanceChecks", fn |-> "check_minification",
       check_name |-> "Unminified CSS/JavaScript",
       category |-> "Performance", statuses |-> {"pass", "fail", "warning"}, impact_score |-> 70],
      [cls |-> "PerformanceChecks", fn |-> "check_http2",
       check_name |-> "HTTP/2 not enabled",
       category |-> "Performance", statuses |-> {"info"}, impact_score |-> 70],
      [cls |-> "PerformanceChecks", fn |-> "check_render_blocking",
       check_name |-> "Render-blocking resources",
       category |-> "Performance", statuses |-> {"pass", "fail", "warning"}, impact_score |-> 85],
      [cls |-> "PerformanceChecks", fn |-> "check_dom_size",
       check_name |-> "Excessive DOM size (>1500 nodes)",
       category |-> "Performance", statuses |-> {"pass", "fail", "warning"}, impact_score |-> 70],
      [cls |-> "PerformanceChecks", fn |-> "check_interaction_to_next_paint",
       check_name |-> "High Interaction to Next Paint (INP >200ms)",
       category |-> "Performance", statuses |-> {"info"}, impact_score |-> 88],
      [cls |-> "PerformanceChecks", fn |-> "check_desktop_performance",
       check_name |-> "Poor desktop performance score (<90)",
       category |-> "Performance", statuses |-> {"info"}, impact_score |-> 80],
      [cls |-> "PerformanceChecks", fn |-> "check_mobile_performance",
       check_name |-> "Poor mobile performance score (<70)",
       category |-> "Performance", statuses |-> {"info"}, impact_score |-> 92],
      [cls |-> "PerformanceChecks", fn |-> "check_third_party_scripts",
       check_name |-> "Third-party scripts slowing site",
       category |-> "Performance", statuses |-> {"warning", "info"}, impact_score |-> 77],
      [cls |-> "PerformanceChecks", fn |-> "check_resource_preloading",
       check_name |-> "No resource preloading",
       category |-> "Performance", statuses |-> {"pass", "warning"}, impact_score |-> 68],
      [cls |-> "PerformanceChecks", fn |-> "check_compressed_resources",
       check_name |-> "Resources not using modern compression (Brotli)",
       category |-> "Performance", statuses |-> {"info"}, impact_score |-> 72],
      [cls |-> "OnPageSEOChecks", fn |-> "check_title_tags",
       check_name |-> "Meta title issues",
       category |-> "On-Page SEO", statuses |-> {"pass", "fail", "warning"}, impact_score |-> 100],
      [cls |-> "OnPageSEOChecks", fn |-> "check_meta_descriptions",
       check_name |-> "Meta description issues",
       category |-> "On-Page SEO", statuses |-> {"pass", "fail", "warning"}, impact_score |-> 85],
      [cls |-> "OnPageSEOChecks", fn |-> "check_h1_tags",
       check_name |-> "H1 heading issues",
       category |-> "On-Page SEO", statuses |-> {"pass", "fail", "warning"}, impact_score |-> 90],
      [cls |-> "OnPageSEOChecks", fn |-> "check_heading_hierarchy",
       check_name |-> "Weak heading hierarchy (skipping levels)",
       category |-> "On-Page SEO", statuses |-> {"pass", "fail", "warning"}, impact_score |-> 65],
      [cls |-> "OnPageSEOChecks", fn |-> "check_image_alt_text",
       check_name |-> "Images missing alt attributes",
       category |-> "On-Page SEO", statuses |-> {"pass", "fail", "warning"}, impact_score |-> 75],
      [cls |-> "OnPageSEOChecks", fn |-> "check_internal_linking",
       check_name |-> "Insufficient internal linking",
       category |-> "On-Page SEO", statuses |-> {"pass", "fail", "warning"}, impact_score |-> 80],
      [cls |-> "OnPageSEOChecks", fn |-> "check_broken_links",
       check_name |-> "Broken internal links",
       category |-> "On-Page SEO", statuses |-> {"info"}, impact_score |-> 70],
      [cls |-> "OnPageSEOChecks", fn |-> "check_breadcrumbs",
       check_name |-> "Missing breadcrumb navigation",
       category |-> "On-Page SEO", statuses |-> {"pass", "warning", "info"}, impact_score |-> 60],
      [cls |-> "OnPageSEOChecks", fn |-> "check_duplicate_titles",
       check_name |-> "Duplicate meta titles across pages",
       category |-> "On-Page SEO", statuses |-> {"pass", "fail", "warning"}, impact_score |-> 85],
      [cls |-> "OnPageSEOChecks", fn |-> "check_duplicate_descriptions",
       check_name |-> "Duplicate meta descriptions",
       category |-> "On-Page SEO", statuses |-> {"pass", "warning", "info"}, impact_score |-> 75],
      [cls |-> "OnPageSEOChecks", fn |-> "check_duplicate_h1",
       check_name |-> "Duplicate H1 tags across pages",
       category |-> "On-Page SEO", statuses |-> {"pass", "warning"}, impact_score |-> 70],
      [cls |-> "OnPageSEOChecks", fn |-> "check_keyword_in_title",
       check_name |-> "Primary keyword missing from title",
       category |-> "On-Page SEO", statuses |-> {"info"}, impact_score |-> 90],
      [cls |-> "OnPageSEOChecks", fn |-> "check_title_search_intent",
       check_name |-> "Title doesn't match search intent",
       category |-> "On-Page SEO", statuses |-> {"info"}, impact_score |-> 82],
      [cls |-> "OnPageSEOChecks", fn |-> "check_description_cta",
       check_name |-> "No call-to-action in description",
       category |-> "On-Page SEO", statuses |-> {"pass", "fail", "warning"}, impact_score |-> 65],
      [cls |-> "OnPageSEOChecks", fn |-> "check_keyword_in_h1",
       check_name |-> "H1 doesn't include primary keyword",
       category |-> "On-Page SEO", statuses |-> {"info"}, impact_score |-> 80],
      [cls |-> "OnPageSEOChecks", fn |-> "check_missing_h2",
       check_name |-> "Missing H2 subheadings",
       category |-> "On-Page SEO", statuses |-> {"pass", "warning", "info"}, impact_score |-> 70],
      [cls |-> "OnPageSEOChecks", fn |-> "check_heading_formatting",
       check_name |-> "Inconsistent heading formatting",
       category |-> "On-Page SEO", statuses |-> {"info"}, impact_score |-> 55],
      [cls |-> "OnPageSEOChecks", fn |-> "check_alt_text_quality",
       check_name |-> "Alt text too short or generic",
       category |-> "On-Page SEO", statuses |-> {"info"}, impact_score |-> 72],
      [cls |-> "OnPageSEOChecks", fn |-> "check_alt_keyword_stuffing",
       check_name |-> "Alt text keyword stuffing",
       category |-> "On-Page SEO", statuses |-> {"info"}, impact_score |-> 68],
      [cls |-> "OnPageSEOChecks", fn |-> "check_decorative_images_alt",
       check_name |-> "Decorative images with descriptive alt",
       category |-> "On-Page SEO", statuses |-> {"info"}, impact_score |-> 50],
      [cls |-> "OnPageSEOChecks", fn |-> "check_contextual_anchor_text",
       check_name |-> "No contextual anchor text",
       category |-> "On-Page SEO", statuses |-> {"info"}, impact_score |-> 75],
      [cls |-> "OnPageSEOChecks", fn |-> "check_orphan_pages",
       check_name |-> "Orphan pages (no internal links)",
       category |-> "On-Page SEO", statuses |-> {"info"}, impact_score |-> 82],
      [cls |-> "OnPageSEOChecks", fn |-> "check_deep_pages",
       check_name |-> "Deep pages (>3 clicks from home)",
       category |-> "On-Page SEO", statuses |-> {"info"}, impact_score |-> 73],
      [cls |-> "OnPageSEOChecks", fn |-> "check_table_of_contents",
       check_name |-> "Table of Contents (TOC) missing",
       category |-> "On-Page SEO", statuses |-> {"pass", "info"}, impact_score |-> 65],
      [cls |-> "OnPageSEOChecks", fn |-> "check_author_info",
       check_name |-> "Author information missing",
       category |-> "On-Page SEO", statuses |-> {"pass", "warning", "info"}, impact_score |-> 78],
      [cls |-> "OnPageSEOChecks", fn |-> "check_publish_date",
       check_name |-> "Published/updated date missing",
       category |-> "On-Page SEO", statuses |-> {"pass", "fail", "warning"}, impact_score |-> 75],
      [cls |-> "OnPageSEOChecks", fn |-> "check_related_content",
       check_name |-> "Related articles/content section missing",
       category |-> "On-Page SEO", statuses |-> {"pass", "warning", "info"}, impact_score |-> 68],
      [cls |-> "OnPageSEOChecks", fn |-> "check_jump_links",
       check_name |-> "No jump links for long content",
       category |-> "On-Page SEO", statuses |-> {"pass", "info"}, impact_score |-> 60],
      [cls |-> "ContentChecks", fn |-> "check_content_length",
       check_name |-> "Thin content - insufficient word count (<800 words)",
       category |-> "Content Quality", statuses |-> {"pass", "fail", "warning"}, impact_score |-> 85],
      [cls |-> "ContentChecks", fn |-> "check_content_freshness",
       check_name |-> "Content not updated recently (>1 year)",
       category |-> "Content Quality", statuses |-> {"info"}, impact_score |-> 70],
      [cls |-> "ContentChecks", fn |-> "check_duplicate_content",
       check_name |-> "Duplicate content across pages",
       category |-> "Content Quality", statuses |-> {"pass", "fail"}, impact_score |-> 80],
      [cls |-> "ContentChecks", fn |-> "check_readability",
       check_name |-> "Readability score too complex (>12th grade)",
       category |-> "Content Quality", statuses |-> {"pass", "fail", "warning"}, impact_score |-> 65],
      [cls |-> "ContentChecks", fn |-> "check_content_comprehensive",
       check_name |-> "Content could be more comprehensive",
       category |-> "Content Quality", statuses |-> {"info"}, impact_score |-> 83],
      [cls |-> "ContentChecks", fn |-> "check_ai_generated_content",
       check_name |-> "Content may be AI-generated without human review",
       category |-> "Content Quality", statuses |-> {"info"}, impact_score |-> 80],
      [cls |-> "ContentChecks", fn |-> "check_keyword_density",
       check_name |-> "Primary keyword density too low",
       category |-> "Content Quality", statuses |-> {"info"}, impact_score |-> 75],
      [cls |-> "ContentChecks", fn |-> "check_semantic_keywords",
       check_name |-> "No semantic keywords (LSI)",
       category |-> "Content Quality", statuses |-> {"info"}, impact_score |-> 78],
      [cls |-> "ContentChecks", fn |-> "check_search_intent_match",
       check_name |-> "Content doesn't match search intent",
       category |-> "Content Quality", statuses |-> {"info"}, impact_score |-> 92],
      [cls |-> "ContentChecks", fn |-> "check_content_update_schedule",
       check_name |-> "No content update schedule",
       category |-> "Content Quality", statuses |-> {"info"}, impact_score |-> 70],
      [cls |-> "SocialMediaChecks", fn |-> "check_social_presence",
       check_name |-> "Limited social media presence",
       category |-> "Social Media", statuses |-> {"pass", "fail", "warning"}, impact_score |-> 55],
      [cls |-> "SocialMediaChecks", fn |-> "check_social_sharing",
       check_name |-> "Low social sharing indicators",
       category |-> "Social Media", statuses |-> {"pass", "warning", "info"}, impact_score |-> 50],
      [cls |-> "SocialMediaChecks", fn |-> "check_social_media_links_prominent",
       check_name |-> "Social media links not prominent",
       category |-> "Social Media", statuses |-> {"info"}, impact_score |-> 52],
      [cls |-> "SocialMediaChecks", fn |-> "check_consistent_branding",
       check_name |-> "Inconsistent branding across platforms",
       category |-> "Social Media", statuses |-> {"info"}, impact_score |-> 58],
      [cls |-> "SocialMediaChecks", fn |-> "check_social_proof",
       check_name |-> "No social proof elements",
       category |-> "Social Media", statuses |-> {"pass", "info"}, impact_score |-> 68],
      [cls |-> "OffPageSEOChecks", fn |-> "check_domain_authority",
       check_name |-> "Low Domain Authority (DA <30)",
       category |-> "Off-Page SEO", statuses |-> {"info"}, impact_score |-> 95],
      [cls |-> "OffPageSEOChecks", fn |-> "check_domain_rating",
       check_name |-> "Low Domain Rating (DR <30)",
       category |-> "Off-Page SEO", statuses |-> {"info"}, impact_score |-> 92],
      [cls |-> "OffPageSEOChecks", fn |-> "check_referring_domains",
       check_name |-> "Few referring domains",
       category |-> "Off-Page SEO", statuses |-> {"info"}, impact_score |-> 90],
      [cls |-> "OffPageSEOChecks", fn |-> "check_low_authority_backlinks",
       check_name |-> "High percentage of backlinks from low-authority domains",
       category |-> "Off-Page SEO", statuses |-> {"info"}, impact_score |-> 80],
      [cls |-> "OffPageSEOChecks", fn |-> "check_spam_score",
       check_name |-> "High spam score in backlink profile",
       category |-> "Off-Page SEO", statuses |-> {"info"}, impact_score |-> 88],
      [cls |-> "OffPageSEOChecks", fn |-> "check_anchor_text",
       check_name |-> "Unnatural anchor text distribution",
       category |-> "Off-Page SEO", statuses |-> {"info"}, impact_score |-> 75],
      [cls |-> "OffPageSEOChecks", fn |-> "check_nofollow_ratio",
       check_name |-> "No-follow ratio too high",
       category |-> "Off-Page SEO", statuses |-> {"info"}, impact_score |-> 70],
      [cls |-> "OffPageSEOChecks", fn |-> "check_directory_citations",
       check_name |-> "Missing citations from industry directories",
       category |-> "Off-Page SEO", statuses |-> {"info"}, impact_score |-> 60],
      [cls |-> "OffPageSEOChecks", fn |-> "check_guest_posting",
       check_name |-> "No guest posting or outreach strategy",
       category |-> "Off-Page SEO", statuses |-> {"info"}, impact_score |-> 72],
      [cls |-> "OffPageSEOChecks", fn |-> "check_competitor_backlink_gap",
       check_name |-> "Competitor backlink gap",
       category |-> "Off-Page SEO", statuses |-> {"info"}, impact_score |-> 85],
      [cls |-> "AnalyticsChecks", fn |-> "check_google_analytics",
       check_name |-> "Google Analytics 4 (GA4) not found",
       category |-> "Analytics & Reporting", statuses |-> {"pass", "fail", "warning"}, impact_score |-> 75],
      [cls |-> "AnalyticsChecks", fn |-> "check_google_tag_manager",
       check_name |-> "Google Tag Manager not implemented",
       category |-> "Analytics & Reporting", statuses |-> {"pass", "warning"}, impact_score |-> 65],
      [cls |-> "AnalyticsChecks", fn |-> "check_search_console",
       check_name |-> "Google Search Console not verified",
       category |-> "Analytics & Reporting", statuses |-> {"info"}, impact_score |-> 85],
      [cls |-> "AnalyticsChecks", fn |-> "check_conversion_tracking",
       check_name |-> "Conversion tracking not set up",
       category |-> "Analytics & Reporting", statuses |-> {"info"}, impact_score |-> 78],
      [cls |-> "AnalyticsChecks", fn |-> "check_data_quality",
       check_name |-> "Analytics data gaps or inconsistencies",
       category |-> "Analytics & Reporting", statuses |-> {"info"}, impact_score |-> 70],
      [cls |-> "AnalyticsChecks", fn |-> "check_custom_events",
       check_name |-> "No custom event tracking",
       category |-> "Analytics & Reporting", statuses |-> {"info"}, impact_score |-> 60],
      [cls |-> "GEOAEOChecks", fn |-> "check_faq_schema",
       check_name |-> "FAQ schema markup missing",
       category |-> "GEO & AEO", statuses |-> {"pass", "warning", "info"}, impact_score |-> 82],
      [cls |-> "GEOAEOChecks", fn |-> "check_howto_schema",
       check_name |-> "HowTo schema markup missing",
       category |-> "GEO & AEO", statuses |-> {"pass", "info"}, impact_score |-> 75],
      [cls |-> "GEOAEOChecks", fn |-> "check_ai_overview_ranking",
       check_name |-> "Not ranking in AI Overview/SGE",
       category |-> "GEO & AEO", statuses |-> {"info"}, impact_score |-> 88],
      [cls |-> "GEOAEOChecks", fn |-> "check_voice_search_optimization",
       check_name |-> "Content not optimized for voice search",
       category |-> "GEO & AEO", statuses |-> {"pass", "fail", "warning"}, impact_score |-> 70],
      [cls |-> "GEOAEOChecks", fn |-> "check_organization_schema",
       check_name |-> "Organization schema missing",
       category |-> "GEO & AEO", statuses |-> {"pass", "fail"}, impact_score |-> 80],
      [cls |-> "GEOAEOChecks", fn |-> "check_local_business_schema",
       check_name |-> "LocalBusiness schema missing",
       category |-> "GEO & AEO", statuses |-> {"info"}, impact_score |-> 85],
      [cls |-> "GEOAEOChecks", fn |-> "check_google_business_profile",
       check_name |-> "No Google Business Profile integration",
       category |-> "GEO & AEO", statuses |-> {"info"}, impact_score |-> 90],
      [cls |-> "GEOAEOChecks", fn |-> "check_nap_consistency",
       check_name |-> "Missing NAP (Name, Address, Phone) consistency",
       category |-> "GEO & AEO", statuses |-> {"info"}, impact_score |-> 75],
      [cls |-> "AdvancedChecks", fn |-> "check_robots_txt_valid",
       check_name |-> "Robots.txt missing or misconfigured",
       category |-> "Advanced Technical", statuses |-> {"info"}, impact_score |-> 80],
      [cls |-> "AdvancedChecks", fn |-> "check_sitemap_xml",
       check_name |-> "Sitemap.xml missing or inaccessible",
       category |-> "Advanced Technical", statuses |-> {"info"}, impact_score |-> 85],
      [cls |-> "AdvancedChecks", fn |-> "check_pagination_tags",
       check_name |-> "Pagination tags missing (rel=next/prev)",
       category |-> "Advanced Technical", statuses |-> {"pass", "info"}, impact_score |-> 65],
      [cls |-> "AdvancedChecks", fn |-> "check_amp_implementation",
       check_name |-> "AMP implementation issues",
       category |-> "Advanced Technical", statuses |-> {"info"}, impact_score |-> 55],
      [cls |-> "AdvancedChecks", fn |-> "check_pwa_optimization",
       check_name |-> "Progressive Web App (PWA) optimization",
       category |-> "Advanced Technical", statuses |-> {"pass", "info"}, impact_score |-> 70],
      [cls |-> "AdvancedChecks", fn |-> "check_security_headers",
       check_name |-> "Security headers missing",
       category |-> "Advanced Security", statuses |-> {"info"}, impact_score |-> 75],
      [cls |-> "AdvancedChecks", fn |-> "check_privacy_policy",
       check_name |-> "Privacy policy missing or outdated",
       category |-> "Advanced Security", statuses |-> {"pass", "fail"}, impact_score |-> 82],
      [cls |-> "AdvancedChecks", fn |-> "check_cookie_consent",
       check_name |-> "Cookie consent not implemented",
       category |-> "Advanced Security", statuses |-> {"pass", "warning"}, impact_score |-> 70],
      [cls |-> "AdvancedChecks", fn |-> "check_wcag_accessibility",
       check_name |-> "WCAG accessibility violations",
       category |-> "Advanced Accessibility", statuses |-> {"info"}, impact_score |-> 78],
      [cls |-> "AdvancedChecks", fn |-> "check_color_contrast",
       check_name |-> "Color contrast issues",
       category |-> "Advanced Accessibility", statuses |-> {"info"}, impact_score |-> 65],
      [cls |-> "AdvancedChecks", fn |-> "check_keyboard_navigation",
       check_name |-> "Keyboard navigation problems",
       category |-> "Advanced Accessibility", statuses |-> {"info"}, impact_score |-> 70],
      [cls |-> "AdvancedChecks", fn |-> "check_http2_enabled",
       check_name |-> "HTTP/2 not enabled",
       category |-> "Advanced Performance", statuses |-> {"info"}, impact_score |-> 65],
      [cls |-> "AdvancedChecks", fn |-> "check_resource_hints",
       check_name |-> "No resource preloading/hints",
       category |-> "Advanced Performance", statuses |-> {"pass", "fail", "warning"}, impact_score |-> 70],
      [cls |-> "AdvancedChecks", fn |-> "check_dom_size",
       check_name |-> "Excessive DOM size (>1500 nodes)",
       category |-> "Advanced Performance", statuses |-> {"pass", "fail", "warning"}, impact_score |-> 75],
      [cls |-> "AdvancedChecks", fn |-> "check_third_party_scripts",
       check_name |-> "Third-party scripts slowing site",
       category |-> "Advanced Performance", statuses |-> {"pass", "fail", "warning"}, impact_score |-> 80],
      [cls |-> "AdvancedChecks", fn |-> "check_ecommerce_tracking",
       check_name |-> "E-commerce tracking not set up",
       category |-> "Advanced Analytics", statuses |-> {"pass", "info"}, impact_score |-> 60],
      [cls |-> "AdvancedChecks", fn |-> "check_core_web_vitals_tracking",
       check_name |-> "Core Web Vitals tracking not configured",
       category |-> "Advanced Analytics", statuses |-> {"info"}, impact_score |-> 85],
      [cls |-> "AdvancedChecks", fn |-> "check_international_seo_setup",
       check_name |-> "International SEO not configured",
       category |-> "Advanced Technical", statuses |-> {"pass", "info"}, impact_score |-> 70]
    >>

RegistryTable(reg) ==
    IF reg = "run_all_checks" THEN ChecksRegistry ELSE ComprehensiveRegistry

TitleIssueStrict(p) ==
    IF p.title = 0 THEN "missing"
    ELSE IF p.title <= 30 THEN "too short"
    ELSE IF p.title >= 60 THEN "too long"
    ELSE "none"

\* The loop body shared by both check_title_tags: not p.title,
\* len(p.title) < 30, len(p.title) > 60.
TitleIssue(p) ==
    IF p.title = 0 THEN "missing"
    ELSE IF p.title < 30 THEN "too short"
    ELSE IF p.title > 60 THEN "too long"
    ELSE "none"

\* checks.py, OnPageSEOChecks.check_title_tags: fail when more than 30% of
\* the pages have an issue.
check_title_tags(pgs) ==
    LET issues == {i \in 1..Len(pgs) : TitleIssue(pgs[i]) # "none"}
    IN  IF 10 * Cardinality(issues) > 3 * Len(pgs) THEN "fail"
        ELSE IF issues # {} THEN "warning"
        ELSE "pass"

\* comprehensive_checks.py, OnPageSEOChecks.check_title_tags: fail when a
\* title is missing.
comprehensive_check_title_tags(pgs) ==
    LET issues  == {i \in 1..Len(pgs) : TitleIssue(pgs[i]) # "none"}
        missing == {i \in 1..Len(pgs) : TitleIssue(pgs[i]) = "missing"}
    IN  IF missing # {} THEN "fail"
        ELSE IF issues # {} THEN "warning"
        ELSE "pass"

check_content_length_half(pgs) ==
    LET thin_pages == {i \in 1..Len(pgs) : pgs[i].word_count < 300}
    IN  IF 10 * Cardinality(thin_pages) > 5 * Len(pgs) THEN "fail"
        ELSE IF thin_pages # {} THEN "warning"
        ELSE "pass"

\* ContentChecks.check_content_length, the same in both files: fail when
\* more than 40% of the pages have fewer than 300 words.
check_content_length(pgs) ==
    LET thin_pages == {i \in 1..Len(pgs) : pgs[i].word_count < 300}
    IN  IF 10 * Cardinality(thin_pages) > 4 * Len(pgs) THEN "fail"
        ELSE IF thin_pages # {} THEN "warning"
        ELSE "pass"

\* The other checks measure page signals that are not modelled.  A run
\* takes, for each of them, the best or the worst status its code returns.
Measurements == {"best", "worst"}

Rank(st) ==
    CASE st = "fail" -> 0 [] st = "warning" -> 1 [] st = "info" -> 2 [] st = "pass" -> 3

Measured(statuses, m) ==
    CHOOSE s \in statuses :
        \A t \in statuses :
            IF m = "best" THEN Rank(s) >= Rank(t) ELSE Rank(s) <= Rank(t)

\* One results.append(...): the dict the check returns.
RunCheck(c, reg, pgs, m) ==
    [check_name   |-> c.check_name,
     category     |-> c.category,
     status       |->
         IF c.cls = "OnPageSEOChecks" /\ c.fn = "check_title_tags"
         THEN IF reg = "run_all_checks" THEN check_title_tags(pgs)
              ELSE comprehensive_check_title_tags(pgs)
         ELSE IF c.cls = "ContentChecks" /\ c.fn = "check_content_length"
         THEN check_content_length(pgs)
         ELSE Measured(c.statuses, m),
     impact_score |-> c.impact_score]

CheckOutputs(reg, pgs, m) ==
    [i \in 1..Len(RegistryTable(reg)) |-> RunCheck(RegistryTable(reg)[i], reg, pgs, m)]

\* audits.py, lines 44-104, with the registered checks run on the pages.
AnalyzeChecks ==
    /\ pc = "analyzing"
    /\ \E reg \in Registries, m \in Measurements :
          StoreResults(RunRegistry(reg, pages, CheckOutputs(reg, pages, m)))

TitleLengths == {0, 29, 30, 60, 61}
WordCounts   == {0, 150, 300, 450}

PageURL(i) == Http(<<"x.com">>, <<"/", "p", ToString(i)>>)

CrawledPage(i, title, word_count) ==
    [url |-> PageURL(i), title |-> title, word_count |-> word_count]

CheckPageLists ==
    UNION { { [i \in 1..n |-> CrawledPage(i, t[i], w[i])] :
                t \in [1..n -> TitleLengths], w \in [1..n -> WordCounts] } :
            n \in 1..MaxPages }

\* process_audit after the crawl returned the pages and line 42 committed.
InitChecks ==
    /\ website_url = SeedPlain
    /\ max_pages = MaxPages
    /\ pc = "analyzing"
    /\ pages \in CheckPageLists
    /\ audit = [NewAudit EXCEPT !.status = "analyzing", !.pages_crawled = Len(pages)]
    /\ db_audit = audit
    /\ session_new = 0
    /\ db_results = 0
    /\ check_results = << >>
    /\ overall_score = [num |-> 0, den |-> 1]
    /\ exc = NoExc
    /\ cpc = "idle"
    /\ base_domain = << >>
    /\ urls_to_visit = << >>
    /\ visited_urls = {}
    /\ crawled_pages = << >>
    /\ normalized_url = << >>
    /\ enq_log = << >>
    /\ fetch_log = << >>
    /\ failed_urls = {}
    /\ ConcIdle /\ QuotaIdle /\ HookIdle

NextChecks ==
    \/ AnalyzeChecks
    \/ FinalCommit

SpecChecks == InitChecks /\ [][NextChecks]_vars

(***************************************************************************)
(* Properties of the crawl.                                                *)
(***************************************************************************)
PageUrls(pgs) == {pgs[i].url : i \in 1..Len(pgs)}

NoDuplicates(s) == \A i, j \in 1..Len(s) : s[i] = s[j] => i = j

\* The fetches of the run that have returned.
ResolvedFetches ==
    IF cpc = "fetch" THEN SubSeq(fetch_log, 1, Len(fetch_log) - 1) ELSE fetch_log

\* C1: crawl never holds more than max_pages pages, in the loop or in what
\* it returns, and no fetch is in flight once max_pages pages are collected.
C1_CrawlBudget ==
    /\ Len(crawled_pages) <= max_pages
    /\ Len(pages) <= max_pages
    /\ cpc = "fetch" => Len(crawled_pages) < max_pages

C1_Witness ==
    /\ cpc = "returned"
    /\ max_pages >= 2
    /\ Len(crawled_pages) = max_pages
    /\ urls_to_visit # << >>

\* C2: within one run no normalized URL is passed to _fetch_page twice, the
\* collected pages have pairwise distinct urls, and there is exactly one
\* page per URL whose fetch succeeded.
C2_FetchedOnce ==
    /\ NoDuplicates(fetch_log)
    /\ NoDuplicates(crawled_pages)
    /\ \A i, j \in 1..Len(crawled_pages) : crawled_pages[i].url = crawled_pages[j].url => i = j
    /\ PageUrls(crawled_pages) = Range(ResolvedFetches) \ failed_urls
    /\ NoDuplicates(pages)

C2_Witness ==
    /\ cpc = "returned"
    /\ Len(crawled_pages) >= 2
    /\ failed_urls # {}
    /\ urls_to_visit # << >>

C10_FailureState ==
    /\ \A u \in failed_urls :
          /\ u \notin PageUrls(crawled_pages)
          /\ Cardinality({i \in 1..Len(fetch_log) : fetch_log[i] = u}) = 1
    /\ Len(crawled_pages) + Cardinality(failed_urls) = Len(ResolvedFetches)
    /\ cpc = "raised" => fetch_log = << >>

C10_FailureStep ==
    (cpc = "fetch" /\ failed_urls' # failed_urls) =>
        /\ cpc' = "loop"
        /\ urls_to_visit' = urls_to_visit
        /\ crawled_pages' = crawled_pages
        /\ visited_urls' = visited_urls

WithStatus(results, st) == {i \in 1..Len(results) : results[i].status = st}

RECURSIVE SumRange(_, _, _, _)
SumRange(results, S, lo, hi) ==
    IF lo > hi THEN 0
    ELSE IF lo = hi THEN (IF lo \in S THEN results[lo].impact_score ELSE 0)
    ELSE LET mid == (lo + hi) \div 2
         IN  SumRange(results, S, lo, mid) + SumRange(results, S, mid + 1, hi)

\* The sum of the impact scores of the results with index in S.
SumImpact(results, S) == SumRange(results, S, 1, Len(results))

\* 20 * total * (base - penalty), for base = passed/total*100 and
\* penalty = (fail impacts + 0.5 * warning impacts)/total*0.3.
Expected20(results) ==
    2000 * Cardinality(WithStatus(results, "pass"))
      - 6 * SumImpact(results, WithStatus(results, "fail"))
      - 3 * SumImpact(results, WithStatus(results, "warning"))

\* C3: the score process_audit computes is clamp(base - penalty, 0, 100),
\* 0 for an empty result list, and 65.2 on the example of the
\* specification (stored as 65.2 too).
C3_ScoreFormula ==
    pc = "committing" =>
        LET total == Len(check_results)
        IN  /\ total = 0 => overall_score.num = 0
            /\ total > 0 =>
                  overall_score.num * 20 * total =
                      overall_score.den * Max(0, Min(2000 * total, Expected20(check_results)))
            /\ check_results = ExampleResults =>
                  /\ 10 * overall_score.num = 652 * overall_score.den
                  /\ audit.overall_score = <<652>>

C3_Witness ==
    /\ pc = "committing"
    /\ check_results = ExampleResults
    /\ audit.overall_score = <<652>>

\* C4: the score stored on a completed audit with at least one check
\* result lies in 0..100 (0..1000 tenths).
ScoreInRange(a) ==
    (a.status = "completed" /\ a.total_checks_run > 0) =>
        /\ a.overall_score # NULL
        /\ a.overall_score[1] >= 0
        /\ a.overall_score[1] <= 1000

C4_ScoreBounds == ScoreInRange(audit) /\ ScoreInRange(db_audit)

C4_Witness ==
    /\ db_audit.status = "completed"
    /\ check_results # << >>
    /\ \A i \in 1..Len(check_results) :
          check_results[i].status = "fail" /\ check_results[i].impact_score = 100
    /\ db_audit.overall_score = <<0>>

\* C5: on a completed audit passed + failed + warning <= total_checks_run,
\* with equality exactly when no result is info.
C5_CountConsistency ==
    db_audit.status = "completed" =>
        LET counted == db_audit.checks_passed + db_audit.checks_failed
                           + db_audit.checks_warning
        IN  /\ db_audit.total_checks_run = Len(check_results)
            /\ counted <= db_audit.total_checks_run
            /\ (counted = db_audit.total_checks_run)
                   <=> (WithStatus(check_results, "info") = {})

C5_Witness ==
    /\ db_audit.status = "completed"
    /\ WithStatus(check_results, "info") # {}
    /\ db_audit.checks_passed + db_audit.checks_failed + db_audit.checks_warning > 0
    /\ db_audit.checks_passed + db_audit.checks_failed + db_audit.checks_warning
           < db_audit.total_checks_run

(***************************************************************************)
(* Properties of the audit status.                                         *)
(***************************************************************************)
NonTerminal == {"pending", "crawling", "analyzing", "generating_report"}

AllowedTransitions ==
    {<<"pending", "crawling">>, <<"crawling", "analyzing">>, <<"analyzing", "completed">>}
        \cup {<<st, "failed">> : st \in NonTerminal}

C6_StatusStep ==
    db_audit.status' # db_audit.status =>
        <<db_audit.status, db_audit.status'>> \in AllowedTransitions

\* C6: the committed status of the audit moves only along
\* pending -> crawling -> analyzing -> completed or from a non-terminal
\* status to failed; completed and failed are never left.
C6_StatusTransitions == [][C6_StatusStep]_vars

C6_Witness ==
    /\ pc = "done"
    /\ db_audit.status = "completed"
    /\ db_audit.pages_crawled > 0

C8_EmptyPages ==
    /\ (pc = "analyzing" /\ pages = << >>) =>
          \A outs \in RegistryOutputs :
              /\ run_all_checks(pages, outs) = << >>
              /\ run_all_comprehensive_checks(pages, outs) = << >>
    /\ (pc = "committing" /\ pages = << >>) =>
          /\ check_results = << >>
          /\ session_new = 0
          /\ audit.total_checks_run = 0
    /\ (pc = "handler" /\ exc.src = "check") => pages # << >>

C8_Witness ==
    /\ pc = "committing"
    /\ max_pages > 0
    /\ pages = << >>
    /\ check_results = << >>

WellFormedSeed(url) ==
    /\ ~urlparse(url).raises
    /\ urlparse(url).scheme \in {<<"http">>, <<"https">>}
    /\ urlparse(url).netloc # << >>

\* C9: a seed that is not a well-formed absolute http(s) URL makes crawl
\* fail before any fetch, and the audit ends failed with an error message,
\* never completed.
C9_MalformedSeedFails ==
    ~WellFormedSeed(website_url) =>
        /\ cpc # "returned"
        /\ cpc = "raised" => fetch_log = << >>
        /\ db_audit.status # "completed"
        /\ pc = "done" => (db_audit.status = "failed" /\ db_audit.error_message # NULL)

(***************************************************************************)
(* Visit order.                                                            *)
(***************************************************************************)
\* The place in the enqueue history of the first entry that normalizes to u.
EnqueuePos(u) ==
    CHOOSE k \in 1..Len(enq_log) :
        /\ _normalize_url(enq_log[k]) = u
        /\ \A j \in 1..(k - 1) : _normalize_url(enq_log[j]) # u

\* C11: the pages are the successful fetches in the order they were made,
\* the first page is the normalized seed, URLs are fetched in the order they
\* were enqueued with no queued URL overtaken, and crawl returns that list.
C11_VisitOrder ==
    /\ crawled_pages =
           [i \in 1..Len(crawled_pages) |->
               Page(SelectSeq(ResolvedFetches, LAMBDA u : u \notin failed_urls)[i])]
    /\ Len(crawled_pages) =
           Len(SelectSeq(ResolvedFetches, LAMBDA u : u \notin failed_urls))
    /\ crawled_pages # << >> => crawled_pages[1].url = _normalize_url(website_url)
    /\ \A b \in 1..Len(fetch_log) :
          /\ \E k \in 1..Len(enq_log) : _normalize_url(enq_log[k]) = fetch_log[b]
          /\ \A a \in 1..(b - 1) : EnqueuePos(fetch_log[a]) < EnqueuePos(fetch_log[b])
          /\ \A k \in 1..(EnqueuePos(fetch_log[b]) - 1) :
                \E a \in 1..(b - 1) : fetch_log[a] = _normalize_url(enq_log[k])
    /\ (pc = "analyzing" /\ pages # << >>) => pages[1].url = _normalize_url(website_url)

\* Three URLs were enqueued, the second page comes from the second of them
\* and the third is still queued when the budget ends the crawl.
C11_Witness ==
    /\ cpc = "returned"
    /\ Len(crawled_pages) = 2
    /\ Len(enq_log) = 3
    /\ crawled_pages[2].url = _normalize_url(enq_log[2])
    /\ urls_to_visit # << >>

(***************************************************************************)
(* Same-domain filter.                                                     *)
(***************************************************************************)
StripWww(host) ==
    IF host # << >> /\ Head(host) = "www." THEN Tail(host) ELSE host

SameHostUpToWww(h1, h2) == StripWww(h1) = StripWww(h2)

\* C12: once base_domain is set, _is_same_domain accepts exactly the hosts
\* equal to the seed host up to a leading "www.", and every URL enqueued or
\* returned has such a host.
C12_SameDomainOnly ==
    cpc \in {"loop", "fetch", "returned"} =>
        /\ \A u \in LinkURLs :
              _is_same_domain(u, base_domain)
                  <=> SameHostUpToWww(urlparse(u).netloc, urlparse(website_url).netloc)
        /\ \A e \in Range(enq_log) \cup PageUrls(crawled_pages) :
              SameHostUpToWww(urlparse(e).netloc, urlparse(website_url).netloc)

(***************************************************************************)
(* Normalization.                                                          *)
(***************************************************************************)
\* C13: _normalize_url is idempotent on every URL the crawl hands to it:
\* the seed, the links of fetched pages and the entries it fetches.
C13_NormalizeIdempotent ==
    \A u \in {website_url} \cup LinkURLs \cup Range(enq_log) \cup Range(fetch_log) :
        _normalize_url(_normalize_url(u)) = _normalize_url(u)

\* URLs with a non-root path that carries no trailing slash and no fragment.
PlainPaths ==
    { Http(<<"x.com">>, <<"/", "a">>),
      Http(<<"x.com">>, <<"/", "a", "/", "b">>),
      Http(<<"www.", "x.com">>, <<"/", "b">>) }

Variants(p) ==
    { p \o <<"/">>, p \o <<"#", "frag">>, p \o <<"/", "#", "section">> }

RootURLs == { Http(<<"x.com">>, <<"/">>), Http(<<"www.", "x.com">>, <<"/">>) }

\* C14: a path with one trailing slash, a fragment or both normalizes like
\* the path itself, the root URL keeps its slash, two variants found on a
\* page add at most one frontier entry, and at most one page is returned
\* for a path and its variants.
C14_VariantsDedupe ==
    /\ \A p \in PlainPaths : \A v \in Variants(p) :
          _normalize_url(v) = _normalize_url(p)
    /\ \A r \in RootURLs : _normalize_url(r) = r /\ _normalize_url(r \o <<"#", "frag">>) = r
    /\ cpc = "fetch" =>
          \A p \in PlainPaths : \A v1, v2 \in Variants(p) \cup {p} :
              Len(Enqueue(<<v1, v2>>, urls_to_visit, visited_urls, base_domain))
                  <= Len(urls_to_visit) + 1
    /\ \A p \in PlainPaths :
          Cardinality({ i \in 1..Len(crawled_pages) :
                          crawled_pages[i].url \in Variants(p) \cup {p} }) <= 1

(***************************************************************************)
(* Score edge cases.                                                       *)
(***************************************************************************)
AllResults(results, st, imps) ==
    /\ results # << >>
    /\ \A i \in 1..Len(results) :
          results[i].status = st /\ results[i].impact_score \in imps

\* C15: when every result is fail with impact 100, nothing passed (base
\* score 0), the penalty is 30, and the score is clamped to exactly 0, in
\* the task and on the committed row.
C15_AllFailScoresZero ==
    AllResults(check_results, "fail", {100}) =>
        /\ pc = "committing" =>
              LET counts == CountLoop(check_results, ZeroCounts)
                  total  == Len(check_results)
              IN  /\ counts.passed = 0 /\ audit.checks_passed = 0
                  /\ audit.checks_failed = total
                  /\ 3 * counts.impact2 = 30 * (20 * total)
                  /\ overall_score.num = 0
                  /\ audit.overall_score = <<0>>
        /\ db_audit.status = "completed" => db_audit.overall_score = <<0>>

C15_Witness ==
    /\ pc = "committing"
    /\ Len(check_results) = 2
    /\ AllResults(check_results, "fail", {100})
    /\ audit.overall_score = <<0>>

\* C16: when every result is pass, whatever the pages and the impact
\* scores, the score is exactly 100.
C16_AllPassScoresHundred ==
    AllResults(check_results, "pass", Impacts) =>
        /\ pc = "committing" =>
              /\ overall_score.num = 100 * overall_score.den
              /\ audit.checks_passed = Len(check_results)
              /\ audit.overall_score = <<1000>>
        /\ db_audit.status = "completed" => db_audit.overall_score = <<1000>>

C16_Witness ==
    /\ db_audit.status = "completed"
    /\ Len(pages) = 2
    /\ Len(check_results) = 2
    /\ check_results[1] = R("pass", 100)
    /\ check_results[2] = R("pass", 0)
    /\ db_audit.overall_score = <<1000>>

(***************************************************************************)
(* Properties of the registered checks, under SpecChecks.                  *)
(***************************************************************************)
Analyzed == pc \in {"committing", "done"}

\* The registry whose results are in check_results.
RanRegistry ==
    IF Len(check_results) = Len(ChecksRegistry) THEN "run_all_checks"
    ELSE "run_all_comprehensive_checks"

CheckIndex(reg, cls, fn) ==
    CHOOSE i \in 1..Len(RegistryTable(reg)) :
        RegistryTable(reg)[i].cls = cls /\ RegistryTable(reg)[i].fn = fn

RECURSIVE SumWords(_)
SumWords(pgs) ==
    IF pgs = << >> THEN 0 ELSE Head(pgs).word_count + SumWords(Tail(pgs))

\* C17: on a non-empty page list whose word counts average 150,
\* check_content_length returns fail, and that is the status of its result
\* in the audit.
C17_ThinAverageFails ==
    (pages # << >> /\ SumWords(pages) = 150 * Len(pages)) =>
        /\ check_content_length(pages) = "fail"
        /\ Analyzed =>
              check_results[CheckIndex(RanRegistry, "ContentChecks",
                                       "check_content_length")].status = "fail"

\* The average 150 comes from one page without text and one with 300 words.
C17_Witness ==
    /\ pc = "committing"
    /\ Len(pages) = 2
    /\ pages[1].word_count = 0 /\ pages[2].word_count = 300
    /\ Len(check_results) = Len(ChecksRegistry)
    /\ check_results[CheckIndex("run_all_checks", "ContentChecks",
                                "check_content_length")].status = "fail"

\* C18: a title of 30 to 60 characters, both ends included, is no issue
\* (29 is too short, 61 too long), and when every page has such a title
\* both title checks return pass.
C18_TitleRange ==
    /\ \A i \in 1..Len(pages) :
          /\ pages[i].title \in 30..60 <=> TitleIssue(pages[i]) = "none"
          /\ pages[i].title = 30 => TitleIssue(pages[i]) # "too short"
          /\ pages[i].title = 60 => TitleIssue(pages[i]) # "too long"
    /\ (pages # << >> /\ \A i \in 1..Len(pages) : pages[i].title \in 30..60) =>
          /\ check_title_tags(pages) = "pass"
          /\ comprehensive_check_title_tags(pages) = "pass"
          /\ Analyzed =>
                check_results[CheckIndex(RanRegistry, "OnPageSEOChecks",
                                         "check_title_tags")].status = "pass"

C18_Witness ==
    /\ pc = "committing"
    /\ Len(pages) = 2
    /\ pages[1].title = 30 /\ pages[2].title = 60
    /\ Len(check_results) = Len(ComprehensiveRegistry)
    /\ check_results[CheckIndex("run_all_comprehensive_checks", "OnPageSEOChecks",
                                "check_title_tags")].status = "pass"

\* backend_test.py, line 680.
ExpectedChecks == 130

\* C19: a completed audit with at least one crawled page ran at least 130
\* checks: one result per registered check, in registration order.
C19_AllChecksRun ==
    (db_audit.status = "completed" /\ db_audit.pages_crawled >= 1) =>
        /\ db_audit.total_checks_run >= ExpectedChecks
        /\ Len(check_results) = Len(ComprehensiveRegistry)
        /\ \A i \in 1..Len(check_results) :
              check_results[i].check_name = ComprehensiveRegistry[i].check_name

OffPage ==
    {i \in 1..Len(ComprehensiveRegistry) :
        ComprehensiveRegistry[i].cls = "OffPageSEOChecks"}

\* C20: every Off-Page SEO check returns info with an impact score in
\* 0..100 whatever the pages; the comprehensive registry's output holds
\* these results, and the counters and the score of the audit are those
\* of the other results.
C20_OffPageInfo ==
    /\ OffPage # {}
    /\ \A i \in OffPage, m \in Measurements :
          LET r == RunCheck(ComprehensiveRegistry[i], "run_all_comprehensive_checks",
                            pages, m)
          IN  r.status = "info" /\ r.impact_score \in 0..100
    /\ (Analyzed /\ Len(check_results) = Len(ComprehensiveRegistry)) =>
          LET rest  == SelectSeq(check_results, LAMBDA r : r.category # "Off-Page SEO")
              total == Len(check_results)
          IN  /\ \A i \in OffPage :
                    /\ check_results[i].status = "info"
                    /\ check_results[i].category = "Off-Page SEO"
              /\ Len(rest) = total - Cardinality(OffPage)
              /\ audit.checks_passed = Cardinality(WithStatus(rest, "pass"))
              /\ audit.checks_failed = Cardinality(WithStatus(rest, "fail"))
              /\ audit.checks_warning = Cardinality(WithStatus(rest, "warning"))
              /\ overall_score.num * 20 * total =
                    overall_score.den * Max(0, Min(2000 * total, Expected20(rest)))

C20_Witness ==
    /\ db_audit.status = "completed"
    /\ Len(check_results) = Len(ComprehensiveRegistry)
    /\ Cardinality(OffPage) = 10
    /\ db_audit.checks_failed > 0
    /\ db_audit.checks_passed + db_audit.checks_failed + db_audit.checks_warning
           <= db_audit.total_checks_run - 10

\* C21: in the result list of one registry run no two results carry the
\* same check_name.
C21_UniqueCheckNames ==
    Analyzed =>
        \A i, j \in 1..Len(check_results) :
            check_results[i].check_name = check_results[j].check_name => i = j

(***************************************************************************)
(* Failures inside process_audit.                                          *)
(***************************************************************************)
\* C22: when a check raises, the exception stays inside the registry run:
\* it does not reach the handler of process_audit, the results of the
\* other checks are stored, and the audit ends completed.
C22_CheckIsolation ==
    exc.src = "check" =>
        /\ pc # "handler"
        /\ pc = "done" =>
              /\ db_audit.status = "completed"
              /\ check_results # << >>
              /\ db_audit.total_checks_run = Len(check_results)

\* The registered checks whose code returns one fixed status.
Unmeasured(reg) ==
    {i \in 1..Len(RegistryTable(reg)) :
        Cardinality(RegistryTable(reg)[i].statuses) = 1}

\* C23: a check whose status does not depend on the pages emits info, so
\* the warnings, failures and penalty of the audit are those of the
\* other checks.
C23_UnmeasuredIsInfo ==
    Analyzed =>
        /\ \A i \in Unmeasured(RanRegistry) : check_results[i].status = "info"
        /\ audit.checks_warning =
              Cardinality(WithStatus(check_results, "warning") \ Unmeasured(RanRegistry))
        /\ audit.checks_failed =
              Cardinality(WithStatus(check_results, "fail") \ Unmeasured(RanRegistry))

\* C24: every audit eventually has status completed or failed on its row.
C24_EventuallyTerminal == <>(db_audit.status \in {"completed", "failed"})


\* C30: at the head of the loop, once the seed has been popped, no frontier
\* entry normalizes to a visited URL and no two entries normalize to the same
\* URL, so the next pop cannot take the skip branch.
C30_FrontierFresh ==
    (pc = "crawling" /\ cpc = "loop" /\ visited_urls # {}) =>
        /\ \A i \in 1..Len(urls_to_visit) :
              _normalize_url(urls_to_visit[i]) \notin visited_urls
        /\ \A i, j \in 1..Len(urls_to_visit) :
              _normalize_url(urls_to_visit[i]) = _normalize_url(urls_to_visit[j]) => i = j


\* C29: a failed audit row has no score, no completion time, zero check
\* counters, and no AuditResult row is persisted for it.
C29_FailedHasNoOutcome ==
    db_audit.status = "failed" =>
        /\ db_audit.overall_score = NULL
        /\ db_audit.completed_at = NULL
        /\ db_audit.total_checks_run = 0
        /\ db_audit.checks_passed = 0
        /\ db_audit.checks_failed = 0
        /\ db_audit.checks_warning = 0
        /\ db_results = 0

\* The final commit failed after the outcome had been set on the session's
\* audit object and the results added, and the handler marked the row failed.
C29_Witness ==
    /\ db_audit.status = "failed"
    /\ exc.src = "commit"
    /\ check_results # << >>
    /\ overall_score.num > 0


\* C28: the crawl loop, once entered, reaches its return, and no normalized
\* URL is fetched twice on the way, so the number of fetches is at most the
\* number of distinct normalized URLs marked visited.
C28_CrawlTerminates ==
    /\ [](\A i, j \in 1..Len(fetch_log) : fetch_log[i] = fetch_log[j] => i = j)
    /\ [](Len(fetch_log) = Cardinality(visited_urls))
    /\ (cpc = "loop") ~> (cpc = "returned")

\* The crawl returned with fewer pages than max_pages after a failed fetch
\* and more than one fetch.
C28_Witness ==
    /\ cpc = "returned"
    /\ Len(crawled_pages) < max_pages
    /\ failed_urls # {}
    /\ Len(fetch_log) >= 2


(***************************************************************************)
(* Two crawl_website calls running in one event loop.  A call is resumed   *)
(* at its awaits only: the fetch (line 312) and the sleep (line 326).      *)
(***************************************************************************)
\* No process_audit task is running.
AuditIdle ==
    /\ website_url = SeedPlain
    /\ max_pages = MaxPages
    /\ pc = "pending"
    /\ audit = NewAudit
    /\ db_audit = NewAudit
    /\ session_new = 0
    /\ db_results = 0
    /\ pages = << >>
    /\ check_results = << >>
    /\ overall_score = [num |-> 0, den |-> 1]
    /\ exc = NoExc
    /\ cpc = "idle"
    /\ base_domain = << >>
    /\ urls_to_visit = << >>
    /\ visited_urls = {}
    /\ crawled_pages = << >>
    /\ normalized_url = << >>
    /\ enq_log = << >>
    /\ fetch_log = << >>
    /\ failed_urls = {}

Runs == {"first", "second"}

RunSeeds == {SeedPlain, SeedWww, SeedSlashes}

\* Sites: the links of each page that is served; any other URL fails.
SiteTree ==
    (Http(<<"x.com">>, << >>) :>
        <<Http(<<"x.com">>, <<"/", "a">>), Http(<<"www.", "x.com">>, <<"/", "b">>)>>)
    @@ (Http(<<"www.", "x.com">>, <<"/">>) :>
        <<Http(<<"www.", "x.com">>, <<"/", "b">>), Http(<<"x.com">>, <<"/", "a", "#", "frag">>)>>)
    @@ (Http(<<"x.com">>, <<"/", "a">>) :>
        <<Http(<<"x.com">>, << >>), Http(<<"x.com">>, <<"/", "a", "/", "/">>)>>)
    @@ (Http(<<"x.com">>, <<"/", "a", "/">>) :>
        <<Http(<<"x.com">>, <<"/", "a">>), Http(<<"evil.com">>, <<"/">>)>>)
    @@ (Http(<<"www.", "x.com">>, <<"/", "b">>) :> <<Http(<<"x.com">>, <<"/", "a", "/">>)>>)

SiteBroken ==
    (Http(<<"x.com">>, << >>) :>
        <<Http(<<"www.", "x.com">>, <<"/", "b">>), Http(<<"x.com">>, <<"/", "a">>)>>)
    @@ (Http(<<"www.", "x.com">>, <<"/">>) :>
        <<Http(<<"x.com">>, <<"/", "a">>), Http(<<"x.com">>, << >>)>>)
    @@ (Http(<<"x.com">>, <<"/", "a">>) :> << >>)
    @@ (Http(<<"x.com">>, <<"/", "a", "/">>) :>
        <<Http(<<"www.", "x.com">>, <<"/", "b">>), Http(<<"x.com">>, <<"/", "a">>)>>)

Sites == {SiteTree, SiteBroken}

Served(s, url) == Fetchable(url) /\ url \in DOMAIN s

\* Lines 301-306 repeated: entries whose normalized URL is visited are
\* popped and skipped without an await.
RECURSIVE SkipVisited(_, _)
SkipVisited(frontier, visited) ==
    IF frontier = << >> THEN << >>
    ELSE IF _normalize_url(Head(frontier)) \in visited
         THEN SkipVisited(Tail(frontier), visited)
         ELSE frontier

\* __init__, lines 103-108.
WebsiteCrawler(mp) ==
    [max_pages |-> mp, visited_urls |-> {}, crawled_pages |-> << >>, base_domain |-> << >>]

StartRun(url, mp) ==
    [cpc |-> "start", start_url |-> url, max_pages |-> mp, self |-> "none",
     urls_to_visit |-> << >>, normalized_url |-> << >>, result |-> << >>]

SharedCrawler(r) == "first"

\* Line 334: each call constructs its own crawler object.
NewCrawler(r) == r

\* Lines 332-335 and 290-296: construct the crawler, parse the seed,
\* initialise the run.
crawl_website(r) ==
    /\ runs[r].cpc = "start"
    /\ LET self == NewCrawler(r)
           made == IF self \in DOMAIN crawlers THEN crawlers
                   ELSE crawlers @@ (self :> WebsiteCrawler(runs[r].max_pages))
       IN  /\ crawlers' = [made EXCEPT ![self].base_domain = urlparse(runs[r].start_url).netloc,
                                       ![self].visited_urls = {},
                                       ![self].crawled_pages = << >>]
           /\ runs' = [runs EXCEPT ![r].cpc = "loop", ![r].self = self,
                                   ![r].urls_to_visit = <<runs[r].start_url>>]
    /\ UNCHANGED <<site, quotaVars, hookVars, website_url, max_pages, auditVars, crawlVars>>

\* Lines 299-312: from the loop head to the await of the fetch.
RunLoopFetch(r) ==
    /\ runs[r].cpc = "loop"
    /\ LET self == runs[r].self
           frontier == SkipVisited(runs[r].urls_to_visit, crawlers[self].visited_urls)
       IN  /\ Len(crawlers[self].crawled_pages) < crawlers[self].max_pages
           /\ frontier # << >>
           /\ crawlers' = [crawlers EXCEPT ![self].visited_urls =
                              @ \cup {_normalize_url(Head(frontier))}]
           /\ runs' = [runs EXCEPT ![r].cpc = "fetch",
                                   ![r].urls_to_visit = Tail(frontier),
                                   ![r].normalized_url = _normalize_url(Head(frontier))]
    /\ UNCHANGED <<site, quotaVars, hookVars, website_url, max_pages, auditVars, crawlVars>>

\* Lines 314-326: the fetch returns, the page and its links are stored,
\* and the run sleeps.
RunFetchReturns(r) ==
    /\ runs[r].cpc = "fetch"
    /\ LET self == runs[r].self
           url  == runs[r].normalized_url
       IN  IF Served(site, url)
           THEN /\ crawlers' = [crawlers EXCEPT ![self].crawled_pages = Append(@, Page(url))]
                /\ runs' = [runs EXCEPT ![r].cpc = "loop",
                                        ![r].urls_to_visit =
                                            Enqueue(site[url], @, crawlers[self].visited_urls,
                                                    crawlers[self].base_domain)]
           ELSE /\ runs' = [runs EXCEPT ![r].cpc = "loop"]
                /\ UNCHANGED crawlers
    /\ UNCHANGED <<site, quotaVars, hookVars, website_url, max_pages, auditVars, crawlVars>>

\* Lines 299 and 328-329: the loop ends and crawl returns self.crawled_pages.
RunReturns(r) ==
    /\ runs[r].cpc = "loop"
    /\ LET self == runs[r].self
           frontier == SkipVisited(runs[r].urls_to_visit, crawlers[self].visited_urls)
       IN  /\ \/ Len(crawlers[self].crawled_pages) >= crawlers[self].max_pages
              \/ frontier = << >>
           /\ runs' = [runs EXCEPT ![r].cpc = "returned",
                                   ![r].result = crawlers[self].crawled_pages]
    /\ UNCHANGED <<site, crawlers, quotaVars, hookVars, website_url, max_pages, auditVars,
                   crawlVars>>

InitRuns ==
    /\ AuditIdle
    /\ QuotaIdle /\ HookIdle
    /\ site \in Sites
    /\ crawlers = << >>
    /\ runs \in [Runs -> {StartRun(url, mp) : url \in RunSeeds, mp \in 1..MaxPages}]

NextRuns ==
    \E r \in Runs :
        \/ crawl_website(r)
        \/ RunLoopFetch(r)
        \/ RunFetchReturns(r)
        \/ RunReturns(r)

SpecRuns == InitRuns /\ [][NextRuns]_vars

\* The same crawl run from start to end with nothing else running.
RECURSIVE CrawlFrom(_, _, _, _, _, _)
CrawlFrom(s, base, mp, frontier, visited, pgs) ==
    LET f == SkipVisited(frontier, visited)
    IN  IF f = << >> \/ Len(pgs) >= mp THEN pgs
        ELSE LET url == _normalize_url(Head(f))
                 seen == visited \cup {url}
             IN  IF Served(s, url)
                 THEN CrawlFrom(s, base, mp, Enqueue(s[url], Tail(f), seen, base), seen,
                                Append(pgs, Page(url)))
                 ELSE CrawlFrom(s, base, mp, Tail(f), seen, pgs)

CrawlAlone(s, url, mp) == CrawlFrom(s, urlparse(url).netloc, mp, <<url>>, {}, << >>)

\* C25: two concurrent crawl_website calls work on different crawler
\* objects, and each returns the page list it returns when run alone.
C25_RunsIsolated ==
    /\ \A r1, r2 \in Runs :
          (r1 # r2 /\ runs[r1].self # "none") =>
              runs[r1].self # runs[r2].self
    /\ \A r \in Runs :
          runs[r].cpc = "returned" =>
              runs[r].result = CrawlAlone(site, runs[r].start_url, runs[r].max_pages)

\* Both runs wait for a fetch at once, each has stored a page, and both
\* have visited a common URL; then one of them has returned two pages.
C25_Witness ==
    /\ runs["first"].cpc = "returned"
    /\ Len(runs["first"].result) >= 2
    /\ runs["second"].cpc = "fetch"
    /\ crawlers["second"].crawled_pages # << >>
    /\ crawlers["first"].visited_urls \cap crawlers["second"].visited_urls # {}


(***************************************************************************)
(* create_audit: two requests of one user in one calendar month, each      *)
(* with its own database session, resumed at its awaits.                   *)
(***************************************************************************)
MaxAudits == 2

Requests == {"r1", "r2"}

StartRequest(sub) ==
    [pc |-> "subscription", subscription |-> sub, audits_this_month |-> 0, response |-> 0]

\* Lines 130-146: the user's active subscription is selected; without one
\* the request ends with 403.
SelectSubscription(q) ==
    /\ requests[q].pc = "subscription"
    /\ requests' = IF requests[q].subscription
                   THEN [requests EXCEPT ![q].pc = "count"]
                   ELSE [requests EXCEPT ![q].pc = "rejected", ![q].response = 403]
    /\ UNCHANGED <<max_audits_per_month, audit_rows, tasks_added, concVars, hookVars,
                   website_url, max_pages, auditVars, crawlVars>>

\* Lines 149-162: the audits rows of the user in the month are counted.
CountAudits(q) ==
    /\ requests[q].pc = "count"
    /\ requests' = [requests EXCEPT ![q].pc = "plan", ![q].audits_this_month = audit_rows]
    /\ UNCHANGED <<max_audits_per_month, audit_rows, tasks_added, concVars, hookVars,
                   website_url, max_pages, auditVars, crawlVars>>

\* Lines 164-177: the plan is loaded and the count read before is compared
\* with its limit; at the limit the request ends with 429.
CheckLimit(q) ==
    /\ requests[q].pc = "plan"
    /\ requests' = IF requests[q].audits_this_month >= max_audits_per_month
                   THEN [requests EXCEPT ![q].pc = "rejected", ![q].response = 429]
                   ELSE [requests EXCEPT ![q].pc = "commit"]
    /\ UNCHANGED <<max_audits_per_month, audit_rows, tasks_added, concVars, hookVars,
                   website_url, max_pages, auditVars, crawlVars>>

\* Lines 179-188: the pending audit is added and committed.
CommitAudit(q) ==
    /\ requests[q].pc = "commit"
    /\ audit_rows' = audit_rows + 1
    /\ requests' = [requests EXCEPT ![q].pc = "refresh"]
    /\ UNCHANGED <<max_audits_per_month, tasks_added, concVars, hookVars,
                   website_url, max_pages, auditVars, crawlVars>>

\* Lines 189-200: the audit is refreshed, process_audit is handed to
\* background_tasks and the request ends with 201.
AddTask(q) ==
    /\ requests[q].pc = "refresh"
    /\ tasks_added' = tasks_added + 1
    /\ requests' = [requests EXCEPT ![q].pc = "created", ![q].response = 201]
    /\ UNCHANGED <<max_audits_per_month, audit_rows, concVars, hookVars,
                   website_url, max_pages, auditVars, crawlVars>>

InitQuota ==
    /\ AuditIdle
    /\ ConcIdle /\ HookIdle
    /\ max_audits_per_month \in 1..MaxAudits
    /\ audit_rows \in 0..max_audits_per_month
    /\ \E sub \in BOOLEAN : requests = [q \in Requests |-> StartRequest(sub)]
    /\ tasks_added = 0

NextQuota ==
    \E q \in Requests :
        \/ SelectSubscription(q)
        \/ CountAudits(q)
        \/ CheckLimit(q)
        \/ CommitAudit(q)
        \/ AddTask(q)

SpecQuota == InitQuota /\ [][NextQuota]_vars

\* C26: the user's audits of the month never exceed the plan's limit, and
\* a request that found the limit reached created no audit and no task.
C26_QuotaRespected ==
    /\ audit_rows <= max_audits_per_month
    /\ tasks_added = Cardinality({q \in Requests : requests[q].pc = "created"})
    /\ \A q \in Requests :
          requests[q].response = 429 => requests[q].audits_this_month >= max_audits_per_month


(***************************************************************************)
(* stripe_webhook: two deliveries of one Stripe event id to one process,   *)
(* each with its own database session, resumed at its awaits.              *)
(***************************************************************************)
Deliveries == {"d1", "d2"}

StartDelivery == [pc |-> "select", existing_event |-> NoRow, response |-> "none"]

\* Lines 320-325 and 327-331: the lock is tested and taken without an
\* await in between; the attempt is counted on the session's event object.
AcquireLock(d, row) ==
    IF "evt" \in webhook_locks
    THEN /\ deliveries' = [deliveries EXCEPT ![d].pc = "returned",
                                             ![d].response = "processing"]
         /\ UNCHANGED webhook_locks
    ELSE /\ webhook_locks' = webhook_locks \cup {"evt"}
         /\ deliveries' = [deliveries EXCEPT ![d].pc = "attempt_commit",
                                             ![d].existing_event = row]

\* Lines 290-293: the database runs the select for the event id.
SelectEvent(d) ==
    /\ deliveries[d].pc = "select"
    /\ deliveries' = [deliveries EXCEPT ![d].pc = "selected",
                                        ![d].existing_event = webhook_events]
    /\ UNCHANGED <<webhook_events, webhook_locks, handler_runs, concVars, quotaVars,
                   website_url, max_pages, auditVars, crawlVars>>

\* Lines 293-325: the request is resumed with the select's result.
SelectReturns(d) ==
    /\ deliveries[d].pc = "selected"
    /\ LET existing_event == deliveries[d].existing_event
       IN  IF existing_event.exists
           THEN IF existing_event.processed
                THEN /\ deliveries' = [deliveries EXCEPT ![d].pc = "returned",
                                                         ![d].response = "already processed"]
                     /\ UNCHANGED webhook_locks
                ELSE AcquireLock(d, existing_event)
           ELSE /\ deliveries' = [deliveries EXCEPT ![d].pc = "insert_commit"]
                /\ UNCHANGED webhook_locks
    /\ UNCHANGED <<webhook_events, handler_runs, concVars, quotaVars,
                   website_url, max_pages, auditVars, crawlVars>>

\* Lines 305-325: the new row is committed; stripe_event_id is unique, so
\* a second insert raises and the request ends with 500.
InsertEvent(d) ==
    /\ deliveries[d].pc = "insert_commit"
    /\ IF webhook_events.exists
       THEN /\ deliveries' = [deliveries EXCEPT ![d].pc = "returned", ![d].response = "500"]
            /\ UNCHANGED <<webhook_events, webhook_locks>>
       ELSE /\ webhook_events' = [NoRow EXCEPT !.exists = TRUE]
            /\ AcquireLock(d, webhook_events')
    /\ UNCHANGED <<handler_runs, concVars, quotaVars,
                   website_url, max_pages, auditVars, crawlVars>>

\* Lines 329-331: the attempt is committed.
CommitAttempt(d) ==
    /\ deliveries[d].pc = "attempt_commit"
    /\ webhook_events' = [webhook_events EXCEPT !.processing_attempts =
                             deliveries[d].existing_event.processing_attempts + 1]
    /\ deliveries' = [deliveries EXCEPT ![d].pc = "handler",
                                        ![d].existing_event.processing_attempts = @ + 1]
    /\ UNCHANGED <<webhook_locks, handler_runs, concVars, quotaVars,
                   website_url, max_pages, auditVars, crawlVars>>

\* Lines 333-361: the handler of the event type runs, commits its changes
\* and returns; the event is marked processed on the session's object.
HandleEvent(d) ==
    /\ deliveries[d].pc = "handler"
    /\ handler_runs' = handler_runs + 1
    /\ deliveries' = [deliveries EXCEPT ![d].pc = "processed_commit"]
    /\ UNCHANGED <<webhook_events, webhook_locks, concVars, quotaVars,
                   website_url, max_pages, auditVars, crawlVars>>

\* Lines 333-367: the handler raises; the error message is committed, the
\* lock released and the request ends with 500.
HandleEventRaises(d) ==
    /\ deliveries[d].pc = "handler"
    /\ webhook_locks' = webhook_locks \ {"evt"}
    /\ deliveries' = [deliveries EXCEPT ![d].pc = "returned", ![d].response = "500"]
    /\ UNCHANGED <<webhook_events, handler_runs, concVars, quotaVars,
                   website_url, max_pages, auditVars, crawlVars>>

\* Lines 357-374: processed is committed, the lock released and the
\* request ends with success.
CommitProcessed(d) ==
    /\ deliveries[d].pc = "processed_commit"
    /\ webhook_events' = [webhook_events EXCEPT !.processed = TRUE]
    /\ webhook_locks' = webhook_locks \ {"evt"}
    /\ deliveries' = [deliveries EXCEPT ![d].pc = "returned", ![d].response = "success"]
    /\ UNCHANGED <<handler_runs, concVars, quotaVars,
                   website_url, max_pages, auditVars, crawlVars>>

InitHook ==
    /\ AuditIdle
    /\ ConcIdle /\ QuotaIdle
    /\ webhook_events = NoRow
    /\ webhook_locks = {}
    /\ deliveries = [d \in Deliveries |-> StartDelivery]
    /\ handler_runs = 0

NextHook ==
    \E d \in Deliveries :
        \/ SelectEvent(d)
        \/ SelectReturns(d)
        \/ InsertEvent(d)
        \/ CommitAttempt(d)
        \/ HandleEvent(d)
        \/ HandleEventRaises(d)
        \/ CommitProcessed(d)

SpecHook == InitHook /\ [][NextHook]_vars

\* C27: no delivery is in the event's handler once the event is marked
\* processed, and at most one delivery is in the handler at a time.
C27_WebhookIdempotent ==
    /\ \A d \in Deliveries : deliveries[d].pc = "handler" => ~webhook_events.processed
    /\ Cardinality({d \in Deliveries : deliveries[d].pc = "handler"}) <= 1

====
